---------------------------- MODULE Spec2Model ----------------------------
(***************************************************************************)
(* A model of the fitness dashboard's data path:                           *)
(*   - load_workout_data behind st.cache_data(ttl=REFRESH_INTERVAL),       *)
(*   - clean_workout_data (the normalizer),                                *)
(*   - extract_movements_from_workout (the wide-to-long pivot),            *)
(*   - the volume aggregates of calculate_workout_metrics and of           *)
(*     show_personal_records.                                              *)
(*                                                                         *)
(* Text is modelled as a sequence of one-character strings so that         *)
(* str.strip, str.lower, substring tests, str.replace and float() are      *)
(* computed, not assumed.  A cell of a table is one of                     *)
(*   [k |-> "null"]            NaN / None / NaT                            *)
(*   [k |-> "str", s |-> seq]  a Python str                                *)
(*   [k |-> "num", n |-> int]  a number                                    *)
(*   [k |-> "ts",  t |-> int]  a pandas Timestamp (yyyymmdd)               *)
(* A table is [cols |-> <<name, ...>>, rows |-> <<[idx, cells], ...>>]:    *)
(* idx is the row's index label, cells is aligned with cols.               *)
(***************************************************************************)
EXTENDS Integers, Sequences, FiniteSets, TLC

VARIABLES
    source,     \* the remote spreadsheet: [status, data]
    cache,      \* st.cache_data's entry for load_workout_data: NoEntry or [value, expires]
    now,        \* the clock the cache's TTL is measured on
    ttl,        \* int(os.getenv('REFRESH_INTERVAL', 60))
    result,     \* what the last call of load_workout_data returned
    call,       \* what was true when that call was made (history)
    hist,       \* the last fetch and whether the cache was cleared since (history)
    raw,        \* the table handed to the pure functions
    cleaned,    \* clean_workout_data(raw), once computed
    movements,  \* extract_movements_from_workout(cleaned), once computed
    pc,         \* position in the pipeline of the pure functions
    recs,       \* movement records handed to the aggregators
    metrics,    \* calculate_workout_metrics(recs), once computed
    pr_data,    \* the personal records show_personal_records derives from recs
    workouts,   \* get_unique_workouts(raw), once computed
    analysis,   \* the per-movement statistics show_movement_analysis tabulates
    view,       \* one run of main: the page it routed to and how the render ended
    probe,      \* a pure function under test: its name, its argument and its results
    session,    \* st.session_state and the widgets' values over the reruns of main
    env,        \* the environment variables the loader reads
    drive       \* the spreadsheets the service account can open

vars == <<source, cache, now, ttl, result, call, hist,
          raw, cleaned, movements, pc, recs, metrics, pr_data,
          workouts, analysis, view, probe, session, env, drive>>

loaderVars == <<source, cache, now, ttl, result, call, hist>>
pureVars   == <<raw, cleaned, movements, pc>>
aggVars    == <<recs, metrics, pr_data>>
viewVars   == <<workouts, analysis, view, probe, session, env, drive>>
auxVars    == <<probe, session, env, drive>>

-----------------------------------------------------------------------------
(* Bounds of the model. *)

MaxTime == 3
MaxTTL == 2
MaxRows == 2
MaxRecs == 2

-----------------------------------------------------------------------------
(* Text *)

UpperLetters == <<"A","B","C","D","E","F","G","H","I","J","K","L","M",
                  "N","O","P","Q","R","S","T","U","V","W","X","Y","Z">>
LowerLetters == <<"a","b","c","d","e","f","g","h","i","j","k","l","m",
                  "n","o","p","q","r","s","t","u","v","w","x","y","z">>
Digits == <<"0","1","2","3","4","5","6","7","8","9">>

\* The characters in code-point order (the order Python compares str by).
Alphabet == <<" ", "!", "#", "-">> \o Digits \o UpperLetters \o <<"_">> \o LowerLetters

Ord(c) == CHOOSE i \in 1..Len(Alphabet) : Alphabet[i] = c

IsSpace(c) == c = " "
IsDigit(c) == \E i \in 1..10 : Digits[i] = c
DigitVal(c) == (CHOOSE i \in 1..10 : Digits[i] = c) - 1

LowerChar(c) ==
    IF \E i \in 1..26 : UpperLetters[i] = c
    THEN LowerLetters[CHOOSE i \in 1..26 : UpperLetters[i] = c]
    ELSE c

\* str.lower()
Lower(s) == IF s = <<>> THEN <<>> ELSE [i \in 1..Len(s) |-> LowerChar(s[i])]

SetMin(S) == CHOOSE x \in S : \A y \in S : x <= y
SetMax(S) == CHOOSE x \in S : \A y \in S : x >= y

\* str.strip()
Strip(s) ==
    LET keep == {i \in 1..Len(s) : ~IsSpace(s[i])}
    IN  IF keep = {} THEN <<>> ELSE SubSeq(s, SetMin(keep), SetMax(keep))

\* sub in s
Contains(s, sub) ==
    \E i \in 0..(Len(s) - Len(sub)) : SubSeq(s, i + 1, i + Len(sub)) = sub

\* s.replace(sub, rep), sub non-empty
RECURSIVE Replace(_, _, _)
Replace(s, sub, rep) ==
    IF Len(s) < Len(sub) THEN s
    ELSE IF SubSeq(s, 1, Len(sub)) = sub
         THEN rep \o Replace(SubSeq(s, Len(sub) + 1, Len(s)), sub, rep)
         ELSE <<Head(s)>> \o Replace(Tail(s), sub, rep)

\* s < t for two str (code-point lexicographic order)
RECURSIVE StrLess(_, _)
StrLess(s, t) ==
    IF t = <<>> THEN FALSE
    ELSE IF s = <<>> THEN TRUE
    ELSE IF Head(s) = Head(t) THEN StrLess(Tail(s), Tail(t))
    ELSE Ord(Head(s)) < Ord(Head(t))

\* str(n) of an int
RECURSIVE NatToStr(_)
NatToStr(n) ==
    IF n < 10 THEN <<Digits[n + 1]>>
    ELSE NatToStr(n \div 10) \o <<Digits[(n % 10) + 1]>>

IntToStr(n) == IF n < 0 THEN <<"-">> \o NatToStr(0 - n) ELSE NatToStr(n)

RECURSIVE DigitsVal(_)
DigitsVal(s) ==
    IF s = <<>> THEN 0
    ELSE 10 * DigitsVal(SubSeq(s, 1, Len(s) - 1)) + DigitVal(s[Len(s)])

AllDigits(s) == s # <<>> /\ \A i \in 1..Len(s) : IsDigit(s[i])

\* Whether float(s) accepts the str s: surrounding whitespace is skipped, then
\* an optional sign and decimal digits (the integer literals; every other text
\* of the model's pools is one float() rejects with ValueError).
FloatParses(s) ==
    LET t == Strip(s)
    IN  \/ AllDigits(t)
        \/ (t # <<>> /\ Head(t) = "-" /\ AllDigits(Tail(t)))

\* float(s) where FloatParses(s)
FloatOf(s) ==
    LET t == Strip(s)
    IN  IF Head(t) = "-" THEN 0 - DigitsVal(Tail(t)) ELSE DigitsVal(t)

\* Text constants of the program.
sDate      == <<"D","a","t","e">>
sdate      == <<"d","a","t","e">>
sWorkout   == <<"W","o","r","k","o","u","t">>
sworkout   == <<"w","o","r","k","o","u","t">>
sMovement  == <<"M","o","v","e","m","e","n","t">>
smovement  == <<"m","o","v","e","m","e","n","t">>
sExercise  == <<"E","x","e","r","c","i","s","e">>
sexercise  == <<"e","x","e","r","c","i","s","e">>
sReps      == <<"R","e","p","s">>
sreps      == <<"r","e","p","s">>
sSets      == <<"S","e","t","s">>
ssets      == <<"s","e","t","s">>
sWeight    == <<"W","e","i","g","h","t">>
sweight    == <<"w","e","i","g","h","t">>
sUnknown   == <<"U","n","k","n","o","w","n">>
sMovementU == <<"m","o","v","e","m","e","n","t","_">>
sWeightU   == <<"w","e","i","g","h","t","_">>
sWeightsU  == <<"w","e","i","g","h","t","s","_">>
sWtU       == <<"w","t","_">>
sRepU      == <<"r","e","p","_">>
sRepsU     == <<"r","e","p","s","_">>
sRepetitionsU == <<"r","e","p","e","t","i","t","i","o","n","s","_">>
sSetU      == <<"s","e","t","_">>
sSetsU     == <<"s","e","t","s","_">>
sRefError  == <<"#","R","E","F","!">>

-----------------------------------------------------------------------------
(* Cells *)

Null   == [k |-> "null"]
Str(s) == [k |-> "str", s |-> s]
Num(n) == [k |-> "num", n |-> n]
Ts(t)  == [k |-> "ts", t |-> t]

\* pd.isna / pd.notna of a scalar
IsNa(c)  == c.k = "null"
NotNa(c) == ~IsNa(c)

\* str(c) of a non-null cell
StrOf(c) ==
    CASE c.k = "str" -> c.s
      [] c.k = "num" -> IntToStr(c.n)
      [] c.k = "ts"  -> IntToStr(c.t)


-----------------------------------------------------------------------------
(* Tables *)

\* pd.DataFrame()
EmptyTable == [cols |-> <<>>, rows |-> <<>>]

\* The None that load_workout_data returns on a failure.
None == [none |-> TRUE]

\* The outcome of a call that raised.
Raised == [raised |-> TRUE]

IsTable(x) == DOMAIN x = {"cols", "rows"}

\* df.empty: no rows or no columns
IsEmpty(t) == t.rows = <<>> \/ t.cols = <<>>

\* pd.DataFrame(data) of the list of row mappings get_all_records returns:
\* the rows get the index labels 0, 1, 2, ...
MkTable(cols, cellRows) ==
    [cols |-> cols,
     rows |-> [i \in 1..Len(cellRows) |-> [idx |-> i - 1, cells |-> cellRows[i]]]]

\* the positions of the columns named name
ColPos(t, name) == {j \in 1..Len(t.cols) : t.cols[j] = name}

\* name in df.columns
HasCol(t, name) == ColPos(t, name) # {}

\* the columns of t whose name is target, letter case aside
NamedLike(t, target) == {j \in 1..Len(t.cols) : Lower(t.cols[j]) = target}

\* row.get(name, default) of a row Series whose labels are unique
RowGet(t, r, name, default) ==
    IF HasCol(t, name) THEN r.cells[SetMin(ColPos(t, name))] ELSE default

\* df.dropna(how='all'): a row all of whose cells are NaN goes
DropAllNa(t) ==
    [t EXCEPT !.rows = SelectSeq(t.rows,
        LAMBDA r : \E j \in 1..Len(t.cols) : NotNa(r.cells[j]))]

\* df.dropna(subset=names, how='all'): a row goes when its cells in the
\* columns of names are all NaN
DropNaSubsetAll(t, names) ==
    [t EXCEPT !.rows = SelectSeq(t.rows,
        LAMBDA r : \E j \in 1..Len(t.cols) :
                      t.cols[j] \in names /\ NotNa(r.cells[j]))]

\* column_mapping, in the order of the dict's items
column_mapping ==
    << <<sdate, sDate>>, <<sDate, sDate>>,
       <<sworkout, sWorkout>>, <<sWorkout, sWorkout>>,
       <<sexercise, sMovement>>, <<smovement, sMovement>>,
       <<sMovement, sMovement>>, <<sExercise, sMovement>>,
       <<sreps, sReps>>, <<sReps, sReps>>,
       <<ssets, sSets>>, <<sSets, sSets>>,
       <<sweight, sWeight>>, <<sWeight, sWeight>> >>

\* df.rename(columns={old: new})
Rename(cols, old, new) ==
    IF cols = <<>> THEN <<>>
    ELSE [j \in 1..Len(cols) |-> IF cols[j] = old THEN new ELSE cols[j]]

\* the loop "for old_name, new_name in column_mapping.items()"
RECURSIVE RenameFrom(_, _)
RenameFrom(cols, i) ==
    IF i > Len(column_mapping) THEN cols
    ELSE RenameFrom(Rename(cols, column_mapping[i][1], column_mapping[i][2]), i + 1)

\* whether pd.to_datetime reads the str s as a date: the ISO form yyyy-mm-dd
IsIsoDate(s) ==
    /\ Len(s) = 10
    /\ s[5] = "-" /\ s[8] = "-"
    /\ \A i \in {1, 2, 3, 4, 6, 7, 9, 10} : IsDigit(s[i])
    /\ DigitsVal(SubSeq(s, 6, 7)) \in 1..12
    /\ DigitsVal(SubSeq(s, 9, 10)) \in 1..31

\* one cell under pd.to_datetime(..., errors='coerce')
ToDatetime(c) ==
    CASE c.k = "null" -> Null
      [] c.k = "ts"   -> c
      [] c.k = "str"  ->
            IF IsIsoDate(Strip(c.s))
            THEN LET t == Strip(c.s)
                 IN  Ts(DigitsVal(SubSeq(t, 1, 4)) * 10000
                        + DigitsVal(SubSeq(t, 6, 7)) * 100
                        + DigitsVal(SubSeq(t, 9, 10)))
            ELSE Null
      [] c.k = "num"  -> Ts(19700101)   \* nanoseconds since the epoch

\* one cell under pd.to_numeric(..., errors='coerce')
ToNumeric(c) ==
    CASE c.k = "null" -> Null
      [] c.k = "num"  -> c
      [] c.k = "str"  -> IF FloatParses(c.s) THEN Num(FloatOf(c.s)) ELSE Null
      [] c.k = "ts"   -> Num(c.t)

\* the conversion of one cell: pd.to_datetime or pd.to_numeric
Convert(conv, c) == IF conv = "datetime" THEN ToDatetime(c) ELSE ToNumeric(c)

\* df[name] = pd.to_datetime(df[name], ...) or pd.to_numeric(df[name], ...)
\* for a column label that occurs once
MapCol(t, name, conv) ==
    [t EXCEPT !.rows =
        IF t.rows = <<>> THEN <<>>
        ELSE [i \in 1..Len(t.rows) |->
                [t.rows[i] EXCEPT !.cells =
                    [j \in 1..Len(t.cols) |->
                        IF t.cols[j] = name THEN Convert(conv, t.rows[i].cells[j])
                        ELSE t.rows[i].cells[j]]]]]

numeric_columns == <<sReps, sSets, sWeight>>
key_columns == {sWorkout, sMovement}

\* "if 'Date' in df.columns: try: df['Date'] = pd.to_datetime(...) except: pass".
\* With the label Date on two columns df['Date'] is a frame, to_datetime
\* raises and the bare except keeps the columns as they are.
ConvertDate(t) ==
    IF Cardinality(ColPos(t, sDate)) = 1 THEN MapCol(t, sDate, "datetime") ELSE t

\* "for col in numeric_columns: if col in df.columns: df[col] = pd.to_numeric(...)"
RECURSIVE ConvertNumeric(_, _)
ConvertNumeric(t, i) ==
    IF i > Len(numeric_columns) THEN t
    ELSE ConvertNumeric(
            IF HasCol(t, numeric_columns[i])
            THEN MapCol(t, numeric_columns[i], "numeric") ELSE t,
            i + 1)

\* pd.to_numeric of a frame (a label on two columns) raises TypeError, which
\* clean_workout_data does not catch.
NumericRaises(t) ==
    \E i \in 1..Len(numeric_columns) : Cardinality(ColPos(t, numeric_columns[i])) > 1

\* "df = df.dropna(subset=existing_key_cols, how='all')"
DropKeyRows(t, names) == DropNaSubsetAll(t, names)

\* clean_workout_data(df): the cleaned table, or Raised
clean_workout_data(df) ==
    IF IsEmpty(df) THEN df
    ELSE
      LET d1 == DropAllNa(df)
          d2 == [d1 EXCEPT !.cols = RenameFrom(d1.cols, 1)]
          d3 == ConvertDate(d2)
      IN  IF NumericRaises(d3) THEN Raised
          ELSE
            LET d4 == ConvertNumeric(d3, 1)
                existing_key_cols == {c \in key_columns : HasCol(d4, c)}
            IN  IF existing_key_cols # {}
                THEN DropKeyRows(d4, existing_key_cols)
                ELSE d4


-----------------------------------------------------------------------------
(* extract_movements_from_workout *)

\* "movement_columns = [col for col in df.columns if 'movement_' in col.lower()]":
\* the positions of the movement columns, in column order
movement_columns(df) ==
    LET P == {j \in 1..Len(df.cols) : Contains(Lower(df.cols[j]), sMovementU)}
        RECURSIVE Asc(_)
        Asc(S) == IF S = {} THEN <<>>
                  ELSE <<SetMin(S)>> \o Asc(S \ {SetMin(S)})
    IN  Asc(P)

\* a variant that keeps the prefix
movement_num_whole(col) == Lower(col)

\* "movement_num = movement_col.lower().replace('movement_', '')"
movement_num(col) == Replace(Lower(col), sMovementU, <<>>)

\* a variant that takes a column whose name contains the target
RECURSIVE find_column_containing(_, _)
find_column_containing(df, target_cols) ==
    IF target_cols = <<>> THEN 0
    ELSE LET hits == {j \in 1..Len(df.cols) :
                        Contains(Lower(df.cols[j]), Lower(Head(target_cols)))}
         IN  IF hits # {} THEN SetMin(hits)
             ELSE find_column_containing(df, Tail(target_cols))

\* find_column(target_cols): the position of the first column that equals,
\* case-insensitively, the first target that has such a column; 0 for None
RECURSIVE find_column(_, _)
find_column(df, target_cols) ==
    IF target_cols = <<>> THEN 0
    ELSE LET hits == {j \in 1..Len(df.cols) :
                        Lower(df.cols[j]) = Lower(Head(target_cols))}
         IN  IF hits # {} THEN SetMin(hits)
             ELSE find_column(df, Tail(target_cols))

weight_targets(num) == <<sWeightU \o num, sWeightsU \o num, sWtU \o num>>
rep_targets(num)    == <<sRepU \o num, sRepsU \o num, sRepetitionsU \o num>>
set_targets(num)    == <<sSetU \o num, sSetsU \o num>>

\* "row.get(col, 0) if col else 0"
cell_or_zero(r, pos) == IF pos = 0 THEN Num(0) ELSE r.cells[pos]

\* "pd.notna(x) and str(x).strip() != ''": the cell goes to float()
goes_to_float(c) == NotNa(c) /\ Strip(StrOf(c)) # <<>>

\* float(x) raises ValueError (a str that is no number) or TypeError (a Timestamp)
float_raises(c) ==
    goes_to_float(c) /\ (c.k = "ts" \/ (c.k = "str" /\ ~FloatParses(c.s)))

\* "float(x) if pd.notna(x) and str(x).strip() != '' else 0", where float succeeds
to_float(c) ==
    IF goes_to_float(c)
    THEN (IF c.k = "num" THEN c.n ELSE FloatOf(c.s))
    ELSE 0

\* the try/except around the three conversions: <<weight, reps, sets>>
convert_numeric(w, r, s) ==
    IF float_raises(w) \/ float_raises(r) \/ float_raises(s)
    THEN <<0, 0, 0>>
    ELSE <<to_float(w), to_float(r), to_float(s)>>

\* "if pd.isna(movement_name) or str(movement_name).strip() == '': continue"
skips_slot(name) == IsNa(name) \/ Strip(StrOf(name)) = <<>>

\* a variant that also takes a zero for data
has_nonnegative_data(n) == n[1] >= 0 \/ n[2] >= 0 \/ n[3] >= 0

\* "if weight > 0 or reps > 0 or sets > 0"
has_meaningful_data(n) == n[1] > 0 \/ n[2] > 0 \/ n[3] > 0

\* the records one slot (the movement column at position mpos) of one row adds
\* to movements_data: none or one
slot_records(df, r, mpos) ==
    LET movement_name == r.cells[mpos]
        num == movement_num(df.cols[mpos])
        n == convert_numeric(
                cell_or_zero(r, find_column(df, weight_targets(num))),
                cell_or_zero(r, find_column(df, rep_targets(num))),
                cell_or_zero(r, find_column(df, set_targets(num))))
    IN  IF skips_slot(movement_name) THEN <<>>
        ELSE IF has_meaningful_data(n)
        THEN << [session_id      |-> r.idx,
                 date            |-> RowGet(df, r, sDate, Null),
                 workout_type    |-> RowGet(df, r, sWorkout, Str(sUnknown)),
                 movement        |-> Strip(StrOf(movement_name)),
                 weight          |-> Num(n[1]),
                 reps            |-> Num(n[2]),
                 sets            |-> Num(n[3]),
                 movement_number |-> num] >>
        ELSE <<>>

\* the inner loop "for movement_col in movement_columns" for one row
RECURSIVE row_records(_, _, _)
row_records(df, r, mcols) ==
    IF mcols = <<>> THEN <<>>
    ELSE slot_records(df, r, Head(mcols)) \o row_records(df, r, Tail(mcols))

\* the outer loop "for idx, row in df.iterrows()": movements_data
RECURSIVE movements_data(_, _)
movements_data(df, i) ==
    IF i > Len(df.rows) THEN <<>>
    ELSE row_records(df, df.rows[i], movement_columns(df)) \o movements_data(df, i + 1)

\* the order of two values of the date column under sort_values: NaT last
date_less(a, b) ==
    CASE IsNa(a) -> FALSE
      [] IsNa(b) -> TRUE
      [] a.k = "ts" /\ b.k = "ts" -> a.t < b.t
      [] a.k = "str" /\ b.k = "str" -> StrLess(a.s, b.s)
      [] OTHER -> FALSE

\* the order of sort_values(['date', 'session_id', 'movement_number']);
\* movement_number is a str and compares as one
record_less(a, b) ==
    \/ date_less(a.date, b.date)
    \/ /\ ~date_less(b.date, a.date)
       /\ \/ a.session_id < b.session_id
          \/ /\ a.session_id = b.session_id
             /\ StrLess(a.movement_number, b.movement_number)

\* x put into the sorted sequence s behind the records that are not after it
insert_sorted(s, x) ==
    LET after == {i \in 1..Len(s) : record_less(x, s[i])}
        k == IF after = {} THEN Len(s) + 1 ELSE SetMin(after)
    IN  SubSeq(s, 1, k - 1) \o <<x>> \o SubSeq(s, k, Len(s))

RECURSIVE sort_values(_)
sort_values(s) ==
    IF s = <<>> THEN <<>>
    ELSE insert_sorted(sort_values(SubSeq(s, 1, Len(s) - 1)), s[Len(s)])

\* extract_movements_from_workout(df): the movement records, in order
\* (<<>> stands for the empty frame the function returns when there are none)
extract_movements_from_workout(df) ==
    IF IsEmpty(df) THEN <<>>
    ELSE LET data == movements_data(df, 1)
         IN  IF data = <<>> THEN <<>>
             ELSE sort_values(SelectSeq(data, LAMBDA m : m.movement # <<>>))


-----------------------------------------------------------------------------
(* The pipeline of the pure functions: a raw table is cleaned, then pivoted. *)

sPush   == <<"P","u","s","h">>
sPull   == <<"P","u","l","l">>
sBench  == <<"B","e","n","c","h">>
sBenchPadded == <<" ","B","e","n","c","h"," ">>
sbench  == <<"b","e","n","c","h">>
sRow    == <<"R","o","w">>
sSquat  == <<"S","q","u","a","t">>
sBlank  == <<" ">>
sAbc    == <<"a","b","c">>
sEightPadded == <<" ","8"," ">>
sDay1   == <<"2","0","2","4","-","0","1","-","0","1">>
sDay2   == <<"2","0","2","4","-","0","1","-","0","2">>
sBadDate == <<"s","o","o","n">>

sMovement1 == sMovementU \o <<"1">>
sWeight1   == sWeightU \o <<"1">>
sRep1      == sRepU \o <<"1">>
sSet1      == sSetU \o <<"1">>
sMovement2 == sMovementU \o <<"2">>
sWeight2   == sWeightU \o <<"2">>
sRep2      == sRepU \o <<"2">>

\* The sheet's layout: two movement slots, the second without a set column.
SheetCols == <<sDate, sWorkout, sMovement1, sWeight1, sRep1, sSet1,
               sMovement2, sWeight2, sRep2>>

\* The same layout with the old single-movement column "Movement" beside it.
SheetColsWithMovement == <<sDate, sWorkout, sMovement>> \o SubSeq(SheetCols, 3, 9)

\* The cells a one-row input table is drawn from, column by column.
WorkoutCells   == {Null, Str(<<>>), Str(sBlank), Str(sPush)}
MovementCells  == {Null, Str(sSquat)}
NameCells      == {Null, Str(sBlank), Str(sBenchPadded), Str(sRefError)}
WeightCells    == {Null, Str(<<>>), Num(0), Num(185), Num(0 - 5),
                   Str(sAbc), Str(sRefError), Str(sEightPadded)}
RepCells       == {Null, Num(0), Num(8), Str(sRefError)}
SetCells       == {Null, Num(3), Str(sAbc)}
Name2Cells     == {Str(<<>>), Str(sRow)}
Weight2Cells   == {Num(70), Str(sAbc)}

OneRowTables ==
    { MkTable(SheetCols, << <<Str(sDay2), w, m1, w1, r1, s1, m2, w2, Num(10)>> >>) :
        w \in WorkoutCells, m1 \in NameCells, w1 \in WeightCells, r1 \in RepCells,
        s1 \in SetCells, m2 \in Name2Cells, w2 \in Weight2Cells }
    \cup
    { MkTable(SheetColsWithMovement,
              << <<Str(sDay2), w, mv, m1, w1, Num(8), Num(3), Str(sRow), Num(70), Num(10)>> >>) :
        w \in WorkoutCells, mv \in MovementCells, m1 \in NameCells,
        w1 \in {Num(185), Str(sAbc)} }

\* The rows the tables of several rows are made of.
RowPool ==
    { <<Str(sDay2), Str(sPush), Str(sBench), Num(185), Num(8), Num(3),
        Str(sRow), Num(70), Num(10)>>,
      <<Str(sDay1), Str(sPull), Str(sRow), Str(sAbc), Num(8), Num(3),
        Str(sRefError), Num(70), Num(10)>>,
      <<Null, Null, Null, Null, Null, Null, Null, Null, Null>>,
      <<Str(sDay1), Null, Str(sBench), Num(100), Null, Null,
        Null, Null, Null>>,
      <<Str(sBadDate), Str(sPush), Str(<<>>), Num(50), Num(5), Num(5),
        Str(sBench), Str(sRefError), Num(0)>>,
      <<Str(sDay1), Str(sPull), Str(sBench), Null, Num(8), Num(3),
        Str(sbench), Num(100), Num(5)>> }

RECURSIVE SeqsOfLen(_, _)
SeqsOfLen(S, n) ==
    IF n = 0 THEN {<<>>}
    ELSE {Append(q, x) : q \in SeqsOfLen(S, n - 1), x \in S}

ManyRowTables ==
    UNION { {MkTable(SheetCols, q) : q \in SeqsOfLen(RowPool, n)} : n \in 2..MaxRows }

\* sample_data of the testing script, as get_all_records hands it over
sPushDay       == <<"P","u","s","h"," ","D","a","y">>
sPullDay       == <<"P","u","l","l"," ","D","a","y">>
sBenchPress    == <<"B","e","n","c","h"," ","P","r","e","s","s">>
sPullUps       == <<"P","u","l","l","-","u","p","s">>
sShoulderPress == <<"S","h","o","u","l","d","e","r"," ","P","r","e","s","s">>
sRows          == <<"R","o","w","s">>
sInclinePress  == <<"I","n","c","l","i","n","e"," ","P","r","e","s","s">>
sDay3          == <<"2","0","2","4","-","0","1","-","0","3">>
sSet2          == sSetU \o <<"2">>

sample_data ==
    MkTable(SheetCols \o <<sSet2>>,
      << <<Str(sDay1), Str(sPushDay), Str(sBenchPress), Num(185), Num(8), Num(3),
           Str(sShoulderPress), Num(95), Num(10), Num(3)>>,
         <<Str(sDay2), Str(sPullDay), Str(sPullUps), Num(0), Num(12), Num(3),
           Str(sRows), Num(70), Num(10), Num(3)>>,
         <<Str(sDay3), Str(sPushDay), Str(sBenchPress), Num(190), Num(6), Num(4),
           Str(sInclinePress), Num(155), Num(8), Num(3)>> >>)

\* Sheets in the long layout, whose headers are variants of the names the
\* cleaner knows: a date, a workout label, a start time and two more columns.
\* The headers of one sheet are distinct (get_all_records requires it).
sStartTime == <<"S","t","a","r","t","_","T","i","m","e">>
sstarttime == <<"s","t","a","r","t","_","t","i","m","e">>

HeaderCols ==
    { <<d, w, t, x1, x2>> :
        d \in {sdate, sDate}, w \in {sworkout, sWorkout},
        t \in {sStartTime, sstarttime}, x1 \in {sweight, sreps},
        x2 \in {sWeight, sSets, sDate, sWorkout} }

HeaderTables ==
    { MkTable(cols, << <<dc, wc, Num(600), c1, c2>> >>) :
        cols \in {h \in HeaderCols : \A i, j \in 1..5 : i # j => h[i] # h[j]},
        dc \in {Str(sDay1), Str(sBadDate)}, wc \in {Str(sPush), Null},
        c1 \in {Num(100), Str(sAbc)}, c2 \in {Str(sEightPadded), Str(sRefError)} }

\* Sheets whose weight, rep and set columns carry the alternate names, in
\* either case, beside columns whose names only contain a target name.
sMovement1Cap == <<"M">> \o Tail(sMovement1)
sWeights1     == sWeightsU \o <<"1">>
sWt1          == sWtU \o <<"1">>
sWT1          == <<"W","T","_","1">>
sXWeight1     == <<"x">> \o sWeight1
sReps1        == sRepsU \o <<"1">>
sRepetitions1 == sRepetitionsU \o <<"1">>
sREPS1        == <<"R","E","P","S","_","1">>
sSets1        == sSetsU \o <<"1">>

WeightNames == {sWeight1, sWeights1, sWt1, sWT1, sXWeight1}
RepNames    == {sRep1, sReps1, sRepetitions1, sREPS1}
SetNames    == {sSet1, sSets1, sSet2}

AltTables ==
    { MkTable(<<sDate, sWorkout, sMovement1Cap, ab[1], ab[2], c, d>>,
              << <<Str(sDay1), Str(sPush), Str(sBench), Num(100), Num(200), Num(8), Num(3)>> >>) :
        ab \in {p \in WeightNames \X WeightNames : p[1] # p[2]},
        c \in RepNames, d \in SetNames }
    \cup
    { MkTable(<<sDate, sWorkout, sMovement1Cap, c, d>>,
              << <<Str(sDay1), Str(sPush), Str(sBench), Num(8), Num(3)>> >>) :
        c \in RepNames \cup {sXWeight1}, d \in SetNames }

\* Sheets with more than nine movement slots: slot 2 beside slot 10, in either
\* column order.
sMovement10 == sMovementU \o <<"1", "0">>
sWeight10   == sWeightU \o <<"1", "0">>

SlotTables ==
    { MkTable(<<sDate, sWorkout, sMovement2, sWeight2, sMovement10, sWeight10>>,
              << <<Str(sDay1), Str(sPush), Str(sBench), Num(100), m10, Num(50)>> >>) :
        m10 \in {Str(sRow), Str(<<>>)} }
    \cup
    { MkTable(<<sDate, sWorkout, sMovement10, sWeight10, sMovement2, sWeight2>>,
              << <<Str(sDay1), Str(sPush), Str(sRow), Num(50), Str(sBench), Num(100)>>,
                 <<d, Str(sPull), Str(sSquat), Num(60), Str(sBench), Num(80)>> >>) :
        d \in {Str(sDay1), Str(sDay2)} }

RawTables == OneRowTables \cup ManyRowTables \cup HeaderTables \cup AltTables
             \cup SlotTables
                \cup {EmptyTable, sample_data}

LoaderIdle ==
    /\ source = [status |-> "ok", data |-> EmptyTable]
    /\ cache = [live |-> FALSE]
    /\ now = 0
    /\ ttl = 1
    /\ result = None
    /\ call = [made |-> FALSE]
    /\ hist = [fetched |-> FALSE]

PipelineIdle ==
    /\ raw = EmptyTable
    /\ cleaned = EmptyTable
    /\ movements = <<>>
    /\ pc = "off"

AggIdle ==
    /\ recs = <<>>
    /\ metrics = [computed |-> FALSE]
    /\ pr_data = [computed |-> FALSE]

AuxIdle ==
    /\ probe = [calls |-> 0]
    /\ session = [started |-> FALSE]
    /\ env = [set |-> FALSE]
    /\ drive = {}

ViewIdle ==
    /\ workouts = [computed |-> FALSE]
    /\ analysis = [computed |-> FALSE]
    /\ view = [ran |-> FALSE]
    /\ AuxIdle

PipelineInit ==
    /\ raw \in RawTables
    /\ cleaned = EmptyTable
    /\ movements = <<>>
    /\ pc = "raw"
    /\ LoaderIdle
    /\ AggIdle
    /\ ViewIdle

\* df = clean_workout_data(df)
Clean ==
    /\ pc = "raw"
    /\ cleaned' = clean_workout_data(raw)
    /\ pc' = "cleaned"
    /\ UNCHANGED <<raw, movements, loaderVars, aggVars, viewVars>>

\* movements_df = extract_movements_from_workout(df)
Extract ==
    /\ pc = "cleaned"
    /\ cleaned # Raised
    /\ movements' = extract_movements_from_workout(cleaned)
    /\ pc' = "extracted"
    /\ UNCHANGED <<raw, cleaned, loaderVars, aggVars, viewVars>>


-----------------------------------------------------------------------------
(* load_workout_data behind st.cache_data(ttl=...) *)

\* The rows of the remote sheet as get_all_records returns them: a blank cell
\* is the empty str, never NaN.
SheetRowA == <<Str(sDay1), Str(sPush), Str(sBench), Num(185), Num(8), Num(3),
               Str(<<>>), Str(<<>>), Str(<<>>)>>
SheetRowB == <<Str(sDay2), Str(sPull), Str(sRow), Num(70), Num(10), Num(3),
               Str(sBench), Str(sRefError), Num(5)>>

\* The contents the sheet takes: a header only, one session, two sessions.
SourceTables ==
    { MkTable(SheetCols, <<>>),
      MkTable(SheetCols, <<SheetRowA>>),
      MkTable(SheetCols, <<SheetRowB, SheetRowA>>) }

\* What stops a fetch: the credentials, gc.open, spreadsheet.worksheet,
\* worksheet.get_all_records.
Failures == {"auth_fail", "no_sheet", "no_worksheet", "read_fail"}

SourceStates ==
    {[status |-> "ok", data |-> d] : d \in SourceTables}
    \cup {[status |-> f, data |-> MkTable(SheetCols, <<>>)] : f \in Failures}

\* get_google_credentials(): the client, or None after an st.error
get_google_credentials(src) ==
    IF src.status = "auth_fail" THEN None ELSE [client |-> TRUE]

\* a body that answers every outcome without rows, failures too, with an empty frame
fetch_failure_as_empty(src) ==
    IF src.status # "ok" \/ src.data.rows = <<>> THEN EmptyTable
    ELSE LET df == clean_workout_data(src.data)
         IN  IF df = Raised THEN None ELSE df

\* the body of load_workout_data, run against the source src
fetch_workout_data(src) ==
    IF get_google_credentials(src) = None THEN None
    ELSE IF src.status \in {"no_sheet", "no_worksheet", "read_fail"}
         THEN None                          \* except Exception: return None
    ELSE IF src.data.rows = <<>>
         THEN EmptyTable                    \* if not data: return pd.DataFrame()
    ELSE LET df == clean_workout_data(src.data)
         IN  IF df = Raised THEN None ELSE df

\* the requests the body of load_workout_data makes against the source src,
\* in order: it stops at the one that fails, and reads the worksheet twice
\* ("data = worksheet.get_all_records()" stands twice in the body)
requests(src) ==
    CASE src.status = "auth_fail"    -> <<"credentials">>
      [] src.status = "no_sheet"     -> <<"credentials", "open">>
      [] src.status = "no_worksheet" -> <<"credentials", "open", "worksheet">>
      [] src.status = "read_fail"    ->
            <<"credentials", "open", "worksheet", "get_all_records">>
      [] OTHER                       ->
            <<"credentials", "open", "worksheet", "get_all_records", "get_all_records">>

\* the st.error messages of one run of the body
errors(src) ==
    IF get_google_credentials(src) = None
    THEN <<"Failed to authenticate with Google Sheets">>
    ELSE IF src.status \in {"no_sheet", "no_worksheet", "read_fail"}
         THEN <<"Error loading workout data">>
    ELSE IF src.data.rows # <<>> /\ clean_workout_data(src.data) = Raised
         THEN <<"Error loading workout data">>
    ELSE <<>>

NoEntry == [live |-> FALSE]

\* a clear that leaves the entries in place
cache_clear_keeping(c) == c

\* st.cache_data.clear(): every entry goes
cache_clear(c) == NoEntry

\* an entry that stops being served one tick before its time to live is over
cache_hit_early_expiry(c, t) == c.live /\ t + 1 < c.expires

\* st.cache_data: the entry is served while its time to live has not elapsed
cache_hit(c, t) == c.live /\ t < c.expires

\* a store that merges the rows of the entry it replaces into the new value
cache_store_merging(old, v, t, life) ==
    [live |-> TRUE,
     value |-> IF old.live /\ IsTable(old.value) /\ IsTable(v)
               THEN [v EXCEPT !.rows = old.value.rows \o v.rows] ELSE v,
     expires |-> t + life]

\* st.cache_data: what is stored after the function ran at time t
cache_store(old, v, t, life) == [live |-> TRUE, value |-> v, expires |-> t + life]

NoFetch == [fetched |-> FALSE]
NoCall  == [made |-> FALSE]

LoaderInit ==
    /\ source \in SourceStates
    /\ cache = NoEntry
    /\ now = 0
    /\ ttl \in 1..MaxTTL
    /\ result = None
    /\ call = NoCall
    /\ hist = NoFetch
    /\ PipelineIdle
    /\ AggIdle
    /\ ViewIdle

\* df = load_workout_data()
Load ==
    /\ IF cache_hit(cache, now)
       THEN /\ result' = cache.value
            /\ UNCHANGED <<cache, hist>>
       ELSE LET v == fetch_workout_data(source)
            IN  /\ result' = v
                /\ cache' = cache_store(cache, v, now, ttl)
                /\ hist' = [fetched |-> TRUE, at |-> now, value |-> v,
                            cleared |-> FALSE]
    /\ call' = [made |-> TRUE, contacted |-> ~cache_hit(cache, now),
                at |-> now, src |-> source, prior |-> hist,
                requests |-> IF cache_hit(cache, now) THEN <<>> ELSE requests(source),
                errors |-> IF cache_hit(cache, now) THEN <<>> ELSE errors(source)]
    /\ UNCHANGED <<source, now, ttl, pureVars, aggVars, viewVars>>

\* the "Refresh Data" button: st.cache_data.clear()
ClearCache ==
    /\ cache.live
    /\ cache' = cache_clear(cache)
    /\ hist' = IF hist.fetched THEN [hist EXCEPT !.cleared = TRUE] ELSE hist
    /\ UNCHANGED <<source, now, ttl, result, call, pureVars, aggVars, viewVars>>

\* time passes
Tick ==
    /\ now < MaxTime
    /\ now' = now + 1
    /\ UNCHANGED <<source, cache, ttl, result, call, hist, pureVars, aggVars, viewVars>>

\* the spreadsheet is edited, or becomes (un)reachable
ChangeSource ==
    /\ source' \in SourceStates \ {source}
    /\ UNCHANGED <<cache, now, ttl, result, call, hist, pureVars, aggVars, viewVars>>

Next == Load \/ ClearCache \/ Tick \/ ChangeSource

Spec == LoaderInit /\ [][Next]_vars


-----------------------------------------------------------------------------
(* The aggregates over movement records *)

\* a product that takes a NaN factor as 1
mul_nan_as_one(a, b) ==
    IF IsNa(a) THEN b ELSE IF IsNa(b) THEN a ELSE Num(a.n * b.n)

\* a * b of two float cells: NaN if either is NaN
mul(a, b) == IF IsNa(a) \/ IsNa(b) THEN Null ELSE Num(a.n * b.n)

\* Series.fillna(0) of one cell
fillna0(c) == IF IsNa(c) THEN Num(0) ELSE c

\* Series.sum() (skipna=True) of a sequence of float cells
RECURSIVE series_sum(_)
series_sum(cs) ==
    IF cs = <<>> THEN 0
    ELSE (IF IsNa(Head(cs)) THEN 0 ELSE Head(cs).n) + series_sum(Tail(cs))

\* the non-NaN values of a sequence of float cells
values_of(cs) == {cs[i].n : i \in {j \in 1..Len(cs) : NotNa(cs[j])}}

\* Series.max() (skipna=True): NaN when every value is NaN
series_max(cs) == IF values_of(cs) = {} THEN Null ELSE Num(SetMax(values_of(cs)))

\* Series.mean() (skipna=True) as the fraction sum/count: NaN when every value is NaN
series_mean(cs) ==
    LET present == SelectSeq(cs, NotNa)
    IN  IF present = <<>> THEN Null
        ELSE [k |-> "ratio", num |-> series_sum(present), den |-> Len(present)]

\* Series.idxmax() (skipna=True): the first position of the largest value,
\* 0 (NaN) when every value is NaN
idxmax(cs) ==
    IF values_of(cs) = {} THEN 0
    ELSE SetMin({i \in 1..Len(cs) : NotNa(cs[i]) /\ cs[i].n = SetMax(values_of(cs))})

\* movements_df[field] as a sequence of cells
column(ms, field) == IF ms = <<>> THEN <<>> ELSE [i \in 1..Len(ms) |-> ms[i][field]]

\* movements_df['movement'].unique(): the names in order of first appearance
RECURSIVE unique_movements(_)
unique_movements(ms) ==
    IF ms = <<>> THEN <<>>
    ELSE LET rest == unique_movements(SubSeq(ms, 1, Len(ms) - 1))
             m == ms[Len(ms)].movement
         IN  IF \E i \in 1..Len(rest) : rest[i] = m THEN rest ELSE Append(rest, m)

of_movement(ms, m) == SelectSeq(ms, LAMBDA x : x.movement = m)

\* one record's term of "movements_df['weight'] * movements_df['reps'] * movements_df['sets']"
volume_term(m) == mul(mul(m.weight, m.reps), m.sets)

\* the Series "movements_df['weight'] * movements_df['reps'] * movements_df['sets']"
volume_column(ms) ==
    IF ms = <<>> THEN <<>> ELSE [i \in 1..Len(ms) |-> volume_term(ms[i])]

\* calculate_workout_metrics(movements_df)
calculate_workout_metrics(ms) ==
    IF ms = <<>> THEN [computed |-> TRUE, empty |-> TRUE]
    ELSE
      LET names == {ms[i].movement : i \in 1..Len(ms)}
          sessions == {ms[i].session_id : i \in 1..Len(ms)}
      IN  [computed |-> TRUE, empty |-> FALSE,
           total_volume |-> series_sum(volume_column(ms)),
           total_reps |-> series_sum(column(ms, "reps")),
           total_sets |-> series_sum(column(ms, "sets")),
           avg_weight_per_movement |->
               [n \in names |-> series_mean(column(of_movement(ms, n), "weight"))],
           max_weight_per_movement |->
               [n \in names |-> series_max(column(of_movement(ms, n), "weight"))],
           total_sessions |-> Cardinality(sessions),
           movements_per_session |->
               [k |-> "ratio", num |-> Len(ms), den |-> Cardinality(sessions)]]

\* one record's value of the column movement_data_volume['volume']
pr_volume(m) == mul(mul(fillna0(m.weight), fillna0(m.reps)), fillna0(m.sets))

\* the column movement_data_volume['volume']
pr_volume_column(ms) ==
    IF ms = <<>> THEN <<>> ELSE [i \in 1..Len(ms) |-> pr_volume(ms[i])]

\* the entries show_personal_records appends for one movement
pr_entries(ms, name) ==
    LET md == of_movement(ms, name)
        wi == idxmax(column(md, "weight"))
        vols == pr_volume_column(md)
        vi == idxmax(vols)
        ri == idxmax(column(md, "reps"))
    IN  (IF wi # 0
         THEN << [movement |-> name, type |-> "Max Weight", value |-> md[wi].weight,
                  reps |-> md[wi].reps, sets |-> md[wi].sets, date |-> md[wi].date] >>
         ELSE <<>>)
        \o
        (IF vi # 0 /\ vols[vi].n > 0
         THEN << [movement |-> name, type |-> "Max Volume", value |-> vols[vi],
                  reps |-> md[vi].reps, sets |-> md[vi].sets, date |-> md[vi].date] >>
         ELSE <<>>)
        \o
        (IF ri # 0
         THEN << [movement |-> name, type |-> "Max Reps", value |-> md[ri].reps,
                  reps |-> md[ri].reps, sets |-> md[ri].sets, date |-> md[ri].date] >>
         ELSE <<>>)

RECURSIVE pr_loop(_, _)
pr_loop(ms, names) ==
    IF names = <<>> THEN <<>>
    ELSE pr_entries(ms, Head(names)) \o pr_loop(ms, Tail(names))

\* show_personal_records(movements_df, workout_type): pr_data
show_personal_records(ms) ==
    IF ms = <<>> THEN [computed |-> TRUE, entries |-> <<>>]
    ELSE [computed |-> TRUE, entries |-> pr_loop(ms, unique_movements(ms))]

\* The movement records the aggregators are given: float columns, NaN allowed.
RecordPool ==
    { [session_id |-> 0, date |-> Ts(20240101), workout_type |-> Str(sPush),
       movement |-> n, weight |-> w, reps |-> r, sets |-> s, movement_number |-> <<"1">>] :
        n \in {sBench, sRow}, w \in {Null, Num(100)}, r \in {Null, Num(5)},
        s \in {Null, Num(3)} }

\* the frame's rows are numbered; a session per row
Numbered(q) == IF q = <<>> THEN <<>>
               ELSE [i \in 1..Len(q) |-> [q[i] EXCEPT !.session_id = i - 1]]

RecordTables ==
    UNION { {Numbered(q) : q \in SeqsOfLen(RecordPool, n)} : n \in 0..MaxRecs }

MetricsInit ==
    /\ recs \in RecordTables
    /\ metrics = [computed |-> FALSE]
    /\ pr_data = [computed |-> FALSE]
    /\ LoaderIdle
    /\ PipelineIdle
    /\ ViewIdle

\* metrics = calculate_workout_metrics(movements_df)
CalcMetrics ==
    /\ ~metrics.computed
    /\ metrics' = calculate_workout_metrics(recs)
    /\ UNCHANGED <<recs, pr_data, loaderVars, pureVars, viewVars>>

\* show_personal_records(movements_df, workout_type)
PersonalRecords ==
    /\ ~pr_data.computed
    /\ pr_data' = show_personal_records(recs)
    /\ UNCHANGED <<recs, metrics, loaderVars, pureVars, viewVars>>

MetricsNext == CalcMetrics \/ PersonalRecords

MetricsSpec == MetricsInit /\ [][MetricsNext]_vars


-----------------------------------------------------------------------------
(* show_movement_analysis: the per-movement statistics of a workout page *)

\* Series.count(): the number of non-NaN values
series_count(cs) == Len(SelectSeq(cs, NotNa))

\* round(2) of the fraction num/den (den > 0), in hundredths, half to even
round2(num, den) ==
    LET q == (num * 100) \div den
        rem == (num * 100) % den
    IN  IF 2 * rem < den THEN q
        ELSE IF 2 * rem > den THEN q + 1
        ELSE IF q % 2 = 0 THEN q ELSE q + 1

\* a mean, rounded to two places: NaN stays NaN
rounded_mean(mean) ==
    IF IsNa(mean) THEN Null ELSE [k |-> "hundredths", h |-> round2(mean.num, mean.den)]

\* the group keys of groupby('movement'): the names in ascending order
RECURSIVE sorted_names(_)
sorted_names(S) ==
    IF S = {} THEN <<>>
    ELSE LET least == CHOOSE x \in S : \A y \in S \ {x} : StrLess(x, y)
         IN  <<least>> \o sorted_names(S \ {least})

group_keys(ms) == sorted_names({ms[i].movement : i \in 1..Len(ms)})

\* one row of "groupby('movement').agg({'weight': ['count', 'mean', 'max'],
\* 'reps': ['mean', 'max'], 'sets': ['mean', 'sum']}).round(2)"
stats_row(md) ==
    [Sessions   |-> series_count(column(md, "weight")),
     AvgWeight  |-> rounded_mean(series_mean(column(md, "weight"))),
     MaxWeight  |-> series_max(column(md, "weight")),
     AvgReps    |-> rounded_mean(series_mean(column(md, "reps"))),
     MaxReps    |-> series_max(column(md, "reps")),
     AvgSets    |-> rounded_mean(series_mean(column(md, "sets"))),
     TotalSets  |-> series_sum(column(md, "sets"))]

\* movement_stats before it is sorted: name -> row
movement_stats(ms) ==
    [nm \in {ms[i].movement : i \in 1..Len(ms)} |-> stats_row(of_movement(ms, nm))]

\* nm put into the sequence s of names ordered by Sessions, largest first,
\* behind the names that have as many sessions
insert_by_sessions(stats, s, nm) ==
    LET after == {i \in 1..Len(s) : stats[s[i]].Sessions < stats[nm].Sessions}
        k == IF after = {} THEN Len(s) + 1 ELSE SetMin(after)
    IN  SubSeq(s, 1, k - 1) \o <<nm>> \o SubSeq(s, k, Len(s))

\* movement_stats.sort_values('Sessions', ascending=False): the order of the rows
RECURSIVE by_sessions(_, _)
by_sessions(stats, keys) ==
    IF keys = <<>> THEN <<>>
    ELSE insert_by_sessions(stats, by_sessions(stats, SubSeq(keys, 1, Len(keys) - 1)),
                            keys[Len(keys)])

\* a > b for two means kept as fractions
mean_greater(a, b) == a.num * b.den > b.num * a.den

\* nm put into the sequence s of names ordered by mean weight, largest first
insert_by_mean(means, s, nm) ==
    LET after == {i \in 1..Len(s) : mean_greater(means[nm], means[s[i]])}
        k == IF after = {} THEN Len(s) + 1 ELSE SetMin(after)
    IN  SubSeq(s, 1, k - 1) \o <<nm>> \o SubSeq(s, k, Len(s))

RECURSIVE by_mean(_, _)
by_mean(means, keys) ==
    IF keys = <<>> THEN <<>>
    ELSE insert_by_mean(means, by_mean(means, SubSeq(keys, 1, Len(keys) - 1)),
                        keys[Len(keys)])

\* the chart "Average Weight by Movement": the movements with at least two
\* weights, by mean weight, largest first (nlargest(10, 'mean'); the tables
\* of the model have fewer than ten movements)
weight_by_movement(ms) ==
    LET means == [nm \in {ms[i].movement : i \in 1..Len(ms)} |->
                     series_mean(column(of_movement(ms, nm), "weight"))]
        twice == SelectSeq(group_keys(ms),
                    LAMBDA nm : series_count(column(of_movement(ms, nm), "weight")) >= 2)
        order == by_mean(means, twice)
    IN  [i \in 1..Len(order) |-> [movement |-> order[i], mean |-> means[order[i]]]]

\* show_movement_analysis(movements_df, workout_type): what it charts and tabulates
show_movement_analysis(ms) ==
    IF ms = <<>> THEN [computed |-> TRUE, empty |-> TRUE]
    ELSE [computed |-> TRUE, empty |-> FALSE,
          chart |-> weight_by_movement(ms),
          stats |-> movement_stats(ms),
          order |-> by_sessions(movement_stats(ms), group_keys(ms))]

\* tab2 of a workout page: show_movement_analysis(movements_df, workout_type)
MovementAnalysis ==
    /\ pc = "extracted"
    /\ ~analysis.computed
    /\ analysis' = show_movement_analysis(movements)
    /\ UNCHANGED <<loaderVars, pureVars, aggVars, workouts, view, auxVars>>

PipelineNext == Clean \/ Extract \/ MovementAnalysis

PipelineSpec == PipelineInit /\ [][PipelineNext]_vars


-----------------------------------------------------------------------------
(* get_unique_workouts *)

MaxLabels == 3

\* Series.unique(): the values in the order of their first appearance
RECURSIVE unique(_)
unique(cs) ==
    IF cs = <<>> THEN <<>>
    ELSE LET rest == unique(SubSeq(cs, 1, Len(cs) - 1))
             x == cs[Len(cs)]
         IN  IF \E i \in 1..Len(rest) : rest[i] = x THEN rest ELSE Append(rest, x)

\* the truth value of a label: '' and 0 are false
truthy(c) ==
    CASE c.k = "str" -> c.s # <<>>
      [] c.k = "num" -> c.n # 0
      [] OTHER       -> TRUE

\* "if w and str(w).strip()"
keeps_label(c) == truthy(c) /\ Strip(StrOf(c)) # <<>>

\* a < b for two labels of one kind
label_less(a, b) ==
    CASE a.k = "str" -> StrLess(a.s, b.s)
      [] a.k = "num" -> a.n < b.n
      [] OTHER       -> a.t < b.t

\* sorted() compares neighbours with <, which raises TypeError between a str
\* and a number
sorted_raises(ws) == \E i, j \in 1..Len(ws) : ws[i].k # ws[j].k

\* x put into the sorted sequence s behind the labels that are not after it
insert_label(s, x) ==
    LET after == {i \in 1..Len(s) : label_less(x, s[i])}
        k == IF after = {} THEN Len(s) + 1 ELSE SetMin(after)
    IN  SubSeq(s, 1, k - 1) \o <<x>> \o SubSeq(s, k, Len(s))

\* sorted(workouts) of labels of one kind
RECURSIVE sorted(_)
sorted(ws) ==
    IF ws = <<>> THEN <<>>
    ELSE insert_label(sorted(SubSeq(ws, 1, Len(ws) - 1)), ws[Len(ws)])

\* df['Workout'] as a sequence of cells, for a label that occurs once
workout_column(df) ==
    LET j == SetMin(ColPos(df, sWorkout))
    IN  [i \in 1..Len(df.rows) |-> df.rows[i].cells[j]]

\* get_unique_workouts(df): [raised, value].  With the label Workout on two
\* columns df['Workout'] is a frame, which has no unique().
get_unique_workouts(df) ==
    IF IsEmpty(df) \/ ~HasCol(df, sWorkout) THEN [raised |-> FALSE, value |-> <<>>]
    ELSE IF Cardinality(ColPos(df, sWorkout)) > 1 THEN [raised |-> TRUE, value |-> <<>>]
    ELSE LET ws == SelectSeq(unique(SelectSeq(workout_column(df), NotNa)), keeps_label)
         IN  IF sorted_raises(ws) THEN [raised |-> TRUE, value |-> <<>>]
             ELSE [raised |-> FALSE, value |-> sorted(ws)]

spull == <<"p","u","l","l">>
s531  == <<"5","3","1">>

\* the Workout cells of the tables handed to get_unique_workouts; a label the
\* sheet holds as digits comes out of get_all_records as a number
LabelCells == {Null, Str(<<>>), Str(sBlank), Str(sPush), Str(sPull), Str(spull),
               Num(531), Num(0)}

WorkoutTables ==
    UNION { {MkTable(<<sDate, sWorkout>>, [i \in 1..n |-> <<Str(sDay1), q[i]>>]) :
                q \in SeqsOfLen(LabelCells, n)} : n \in 1..MaxLabels }
    \cup {EmptyTable,
          MkTable(<<sDate, sWorkout>>, <<>>),
          MkTable(<<sDate, sMovement1>>, << <<Str(sDay1), Str(sBench)>> >>),
          MkTable(<<sWorkout, sWorkout>>, << <<Str(sPush), Str(sPull)>> >>)}

WorkoutsInit ==
    /\ raw \in WorkoutTables
    /\ cleaned = EmptyTable
    /\ movements = <<>>
    /\ pc = "off"
    /\ ViewIdle
    /\ LoaderIdle
    /\ AggIdle

\* workouts = get_unique_workouts(df)
GetUniqueWorkouts ==
    /\ ~workouts.computed
    /\ workouts' = [computed |-> TRUE] @@ get_unique_workouts(raw)
    /\ UNCHANGED <<loaderVars, pureVars, aggVars, analysis, view, auxVars>>

WorkoutsNext == GetUniqueWorkouts

WorkoutsSpec == WorkoutsInit /\ [][WorkoutsNext]_vars


-----------------------------------------------------------------------------
(* main: one run of the script, from the loaded table to the rendered page *)

\* st.session_state.selected_workout when no workout page is selected
NoSelection == [none |-> TRUE]

\* page_options of the sidebar's selectbox
page_options == {"summary", "workout_selection", "progress"}

\* get_workout_data(df, workout_type): the sessions of one workout type.
\* utils.data_loader does not define it; it is taken to be the filter main
\* itself writes as df[df['Workout'] == workout].
get_workout_data(df, workout_type) ==
    [df EXCEPT !.rows = SelectSeq(df.rows,
        LAMBDA r : RowGet(df, r, sWorkout, Null) = workout_type)]

\* show_session_overview raises while it builds the "Recent Sessions" table:
\* workout_df.nlargest(10, 'Date')[['Date', 'Start_Time']] is a KeyError
\* without a Start_Time column, and with one the column, which nothing
\* converts to times, has no .dt accessor.
session_overview_raises(workout_df) ==
    ~IsEmpty(workout_df) /\ HasCol(workout_df, sDate)

\* show_individual_workout_page(df, workout_type) raises; fault stands for an
\* exception of the calls that are not modelled (the charts, the other tabs)
individual_page_raises(df, workout_type, fault) ==
    LET workout_df == get_workout_data(df, workout_type)
    IN  IF IsEmpty(workout_df) THEN FALSE      \* st.warning(...); return
        ELSE session_overview_raises(workout_df) \/ fault

\* the pages whose body runs inside "try: ... except Exception as e: st.error(...)"
catches_at_boundary(page) == page = "summary"

\* routing that looks at the selection before it looks for rows
route_selection_first(df, selected_workout, page) ==
    IF df = None THEN "connection_error"
    ELSE IF selected_workout # NoSelection THEN "individual"
    ELSE IF IsEmpty(df) THEN "no_data"
    ELSE page

\* "Handle page routing": the page main calls
route(df, selected_workout, page) ==
    IF df = None THEN "connection_error"
    ELSE IF IsEmpty(df) THEN "no_data"
    ELSE IF selected_workout # NoSelection THEN "individual"
    ELSE page

\* how the call of the page ends: "rendered", "inline_error" (the page caught
\* the exception and showed st.error) or "escaped" (it left the page and main)
render(pg, df, selected_workout, fault) ==
    LET raises ==
            CASE pg \in {"connection_error", "no_data"} -> FALSE
              [] pg = "individual" -> individual_page_raises(df, selected_workout, fault)
              [] OTHER -> fault
    IN  IF ~raises THEN "rendered"
        ELSE IF catches_at_boundary(pg) THEN "inline_error"
        ELSE "escaped"

\* the sidebar calls get_unique_workouts(df) for a table with rows
sidebar_raises(df) == df # None /\ ~IsEmpty(df) /\ get_unique_workouts(df).raised

\* main(), given what load_workout_data returned, the session state and the
\* selectbox
main(df, selected_workout, page, fault) ==
    IF sidebar_raises(df)
    THEN [ran |-> TRUE, page |-> "sidebar", selected |-> selected_workout,
          fault |-> fault, outcome |-> "escaped"]
    ELSE [ran |-> TRUE, page |-> route(df, selected_workout, page),
          selected |-> selected_workout, fault |-> fault,
          outcome |-> render(route(df, selected_workout, page), df,
                             selected_workout, fault)]

\* sheets without a Date column, and with a label get_all_records made a number
PageSheets ==
    { sample_data,
      MkTable(<<sWorkout, sMovement1, sWeight1>>,
              << <<Str(sPush), Str(sBench), Num(100)>> >>),
      MkTable(<<sDate, sWorkout>>,
              << <<Str(sDay1), Str(sPush)>>, <<Str(sDay2), Num(531)>> >>) }
    \cup ManyRowTables \cup HeaderTables

\* what load_workout_data returns to main
PageResults ==
    {None, EmptyTable}
    \cup {clean_workout_data(t) : t \in {x \in PageSheets : clean_workout_data(x) # Raised}}

Selections == {NoSelection, Str(sPush), Str(sPushDay), Str(sSquat)}

PageInit ==
    /\ result \in PageResults
    /\ ViewIdle
    /\ source = [status |-> "ok", data |-> EmptyTable]
    /\ cache = [live |-> FALSE]
    /\ now = 0
    /\ ttl = 1
    /\ call = [made |-> FALSE]
    /\ hist = [fetched |-> FALSE]
    /\ PipelineIdle
    /\ AggIdle

\* one run of main
Main ==
    /\ ~view.ran
    /\ \E selected_workout \in Selections, page \in page_options, fault \in BOOLEAN :
          view' = main(result, selected_workout, page, fault)
    /\ UNCHANGED <<loaderVars, pureVars, aggVars, workouts, analysis, auxVars>>

PageNext == Main

PageSpec == PageInit /\ [][PageNext]_vars


-----------------------------------------------------------------------------
(* get_data_summary, validate_data_structure, and the pure functions called
   on a frame the caller keeps *)

\* df[name].isna().sum() for a label that one column carries
isna_sum(df, name) ==
    Cardinality({i \in 1..Len(df.rows) :
                    IsNa(df.rows[i].cells[SetMin(ColPos(df, name))])})

\* "if name in df.columns: n = df[name].isna().sum(); if n > 0": with the label
\* on two columns df[name] is a frame, the sum a Series, and the truth value
\* of "n > 0" is ambiguous (ValueError)
isna_check_raises(df, name) == Cardinality(ColPos(df, name)) > 1

\* the issue a check appends when cond holds
issue(cond, text) == IF cond THEN <<text>> ELSE <<>>

\* validate_data_structure(df): (is_valid, issues), or a raise
validate_data_structure(df) ==
    IF IsEmpty(df)
    THEN [raised |-> FALSE, is_valid |-> FALSE, issues |-> <<"Dataset is empty">>]
    ELSE IF isna_check_raises(df, sWorkout) \/ isna_check_raises(df, sDate)
    THEN [raised |-> TRUE, is_valid |-> FALSE, issues |-> <<>>]
    ELSE
      LET issues ==
              issue(~HasCol(df, sWorkout), "Missing 'Workout' column")
           \o issue(~HasCol(df, sDate), "Missing 'Date' column")
           \o issue(movement_columns(df) = <<>>, "No movement columns found")
           \o issue(HasCol(df, sWorkout) /\ isna_sum(df, sWorkout) > 0,
                    "rows have empty workout types")
           \o issue(HasCol(df, sDate) /\ isna_sum(df, sDate) > 0,
                    "rows have invalid or empty dates")
           \o issue(extract_movements_from_workout(df) = <<>>,
                    "No valid movement data could be extracted")
      IN  [raised |-> FALSE, is_valid |-> Len(issues) = 0, issues |-> issues]

\* the cells of the Date column (one column carries the label)
date_cells(df) ==
    {df.rows[i].cells[SetMin(ColPos(df, sDate))] : i \in 1..Len(df.rows)}

\* "df['Date'].min().strftime(...)" raises: the label is on two columns (the
\* condition before it is ambiguous), or the extreme value is no Timestamp
date_range_raises(df) ==
    /\ HasCol(df, sDate)
    /\ \/ Cardinality(ColPos(df, sDate)) > 1
       \/ \E c \in date_cells(df) : NotNa(c) /\ c.k # "ts"

\* summary['date_range']: the earliest and the latest day
date_range(df) ==
    IF HasCol(df, sDate) /\ \E c \in date_cells(df) : NotNa(c)
    THEN LET days == {c.t : c \in {x \in date_cells(df) : NotNa(x)}}
         IN  <<SetMin(days), SetMax(days)>>
    ELSE <<>>                                 \* 'No date information'

\* get_data_summary(df): the summary dict, or a raise
get_data_summary(df) ==
    IF IsEmpty(df)
    THEN [raised |-> FALSE, total_records |-> 0, unique_workouts |-> 0,
          date_range |-> <<>>, columns |-> <<>>,
          unique_movements |-> 0, total_movement_entries |-> 0]
    ELSE IF get_unique_workouts(df).raised \/ date_range_raises(df)
    THEN [raised |-> TRUE, total_records |-> 0, unique_workouts |-> 0,
          date_range |-> <<>>, columns |-> <<>>,
          unique_movements |-> 0, total_movement_entries |-> 0]
    ELSE LET movements_df == extract_movements_from_workout(df)
         IN  [raised |-> FALSE,
              total_records |-> Len(df.rows),
              unique_workouts |-> Len(get_unique_workouts(df).value),
              date_range |-> date_range(df),
              columns |-> df.cols,
              unique_movements |-> Cardinality({movements_df[i].movement :
                                                  i \in 1..Len(movements_df)}),
              total_movement_entries |-> Len(movements_df)]

pure_functions ==
    {"clean_workout_data", "get_unique_workouts", "extract_movements_from_workout",
     "get_data_summary", "validate_data_structure"}

\* what the call fn(df) returns
returned(fn, df) ==
    CASE fn = "clean_workout_data" -> [value |-> clean_workout_data(df)]
      [] fn = "get_unique_workouts" -> get_unique_workouts(df)
      [] fn = "extract_movements_from_workout" ->
            [value |-> extract_movements_from_workout(df)]
      [] fn = "get_data_summary" -> get_data_summary(df)
      [] fn = "validate_data_structure" -> validate_data_structure(df)

\* a clean_workout_data that converts the columns of the frame it was given
argument_converted_in_place(fn, df) ==
    IF fn = "clean_workout_data" /\ ~IsEmpty(df) /\ ~NumericRaises(df)
    THEN ConvertNumeric(ConvertDate(df), 1)
    ELSE df

\* the caller's frame after the call fn(df).  clean_workout_data returns an
\* empty frame as it is and otherwise binds df to df.copy() before the first
\* assignment to a column; the other functions only read: df.columns,
\* df.iterrows(), row.get, df[...].isna(), dropna().unique() build new objects
argument_after(fn, df) == df

\* a frame without the column name
WithoutCol(t, name) ==
    LET keep == {j \in 1..Len(t.cols) : t.cols[j] # name}
        RECURSIVE Pick(_, _)
        Pick(q, S) == IF S = {} THEN <<>>
                      ELSE <<q[SetMin(S)]>> \o Pick(q, S \ {SetMin(S)})
    IN  [cols |-> Pick(t.cols, keep),
         rows |-> IF t.rows = <<>> THEN <<>>
                  ELSE [i \in 1..Len(t.rows) |->
                          [t.rows[i] EXCEPT !.cells = Pick(t.rows[i].cells, keep)]]]

\* frames built from the sheet's records, with and without the columns the
\* validation looks for
SheetFrames ==
    ManyRowTables \cup HeaderTables \cup {EmptyTable, sample_data}
    \cup {WithoutCol(t, c) : t \in ManyRowTables, c \in {sDate, sWorkout}}
    \cup {WithoutCol(WithoutCol(t, sMovement1), sMovement2) : t \in ManyRowTables}

\* the frames the functions are called on: built from the records, or cleaned
FunctionFrames ==
    SheetFrames
    \cup {clean_workout_data(t) : t \in {x \in SheetFrames : clean_workout_data(x) # Raised}}

FunctionsInit ==
    /\ raw \in FunctionFrames
    /\ cleaned = EmptyTable
    /\ movements = <<>>
    /\ pc = "off"
    /\ LoaderIdle
    /\ AggIdle
    /\ ViewIdle

\* out = fn(df), a first and a second time on the frame the caller keeps
CallPure ==
    /\ probe.calls < 2
    /\ \E fn \in pure_functions :
          /\ probe.calls = 1 => fn = probe.fn
          /\ probe' = IF probe.calls = 0
                      THEN [calls |-> 1, fn |-> fn, arg |-> raw,
                            first |-> returned(fn, raw)]
                      ELSE [calls |-> 2, fn |-> fn, arg |-> probe.arg,
                            first |-> probe.first, second |-> returned(fn, raw)]
          /\ raw' = argument_after(fn, raw)
    /\ UNCHANGED <<cleaned, movements, pc, loaderVars, aggVars,
                   workouts, analysis, view, session, env, drive>>

\* between the calls the cache is filled and a rerun changes the session state
Touch ==
    /\ probe.calls = 1
    /\ ~cache.live
    /\ cache' = cache_store(cache, raw, now, ttl)
    /\ session' = [started |-> TRUE]
    /\ UNCHANGED <<source, now, ttl, result, call, hist, pureVars, aggVars,
                   workouts, analysis, view, probe, env, drive>>

FunctionsNext == CallPure \/ Touch

FunctionsSpec == FunctionsInit /\ [][FunctionsNext]_vars


-----------------------------------------------------------------------------
(* The reruns of main: st.session_state, the widgets and the loaded table *)

\* the widget events a run of the script can carry; "rerun" is a run without
\* one (the first run, or the run st.rerun() asked for), "none" no run at all
NoEvent == [kind |-> "none", w |-> NoSelection, p |-> "summary"]
Rerun   == [kind |-> "rerun", w |-> NoSelection, p |-> "summary"]

\* the workout types of the loaded table, as a set
Types(df) ==
    IF df = None THEN {}
    ELSE {get_unique_workouts(df).value[i] :
            i \in 1..Len(get_unique_workouts(df).value)}

\* "df is not None and not df.empty"
has_rows(df) == df # None /\ ~IsEmpty(df)

\* a navigation helper that reads the key without creating it
get_workout_page_navigation_reading(ss) == ss

\* get_workout_page_navigation(): the session state after the call; the call
\* returns its selected_workout
get_workout_page_navigation(ss) ==
    IF ss.has_key THEN ss
    ELSE [ss EXCEPT !.has_key = TRUE, !.selected = NoSelection]

\* a selection that is kept beside the one in the session state
select_workout_unstored(ss, w, via) ==
    [ss EXCEPT !.last = [kind |-> "select", w |-> w, via |-> via, rendered |-> FALSE]]

\* "st.session_state.selected_workout = workout"
select_workout(ss, w, via) ==
    [ss EXCEPT !.has_key = TRUE, !.selected = w,
               !.last = [kind |-> "select", w |-> w, via |-> via, rendered |-> FALSE]]

\* "if 'selected_workout' in st.session_state: del st.session_state.selected_workout"
back_to_main(ss, via) ==
    [ss EXCEPT !.has_key = FALSE, !.selected = NoSelection,
               !.last = [kind |-> "back", w |-> NoSelection, via |-> via,
                         rendered |-> FALSE]]

\* the run ended in st.rerun(): nothing more is rendered
Reran(ss) == [session |-> ss, view |-> [ran |-> FALSE], rerun |-> TRUE, clear |-> FALSE]

\* the run reached its end, or an exception that nothing caught
Rendered(ss, v) ==
    [session |-> [ss EXCEPT !.last.rendered = TRUE],
     view |-> v, rerun |-> FALSE, clear |-> FALSE]

\* one run of main() on the session state ss, the loaded table df and the
\* widget event e
script(ss, df, e) ==
    IF e.kind = "refresh"
    THEN [session |-> ss, view |-> [ran |-> FALSE], rerun |-> TRUE, clear |-> TRUE]
    ELSE IF sidebar_raises(df)
    THEN Rendered(ss, main(df, NoSelection, ss.page, FALSE) @@ [types |-> {}])
    ELSE
      LET ss1 == [get_workout_page_navigation(ss) EXCEPT
                    !.after_nav = [called |-> TRUE,
                                   has_key |-> get_workout_page_navigation(ss).has_key]]
          selected_workout == ss1.selected
          types == Types(df)
      IN  IF selected_workout # NoSelection
          THEN IF has_rows(df) /\ e.kind = "switch" /\ e.w \in types \ {selected_workout}
               THEN Reran(select_workout(ss1, e.w, e.kind))
               ELSE IF e.kind = "back_sidebar"
               THEN Reran(back_to_main(ss1, e.kind))
               ELSE IF has_rows(df) /\ e.kind = "back_page"
               THEN Reran(back_to_main(ss1, e.kind))
               ELSE Rendered([ss1 EXCEPT !.page = "summary"],
                             main(df, selected_workout, "summary", FALSE)
                                @@ [types |-> types])
          ELSE LET ss2 == IF has_rows(df) /\ e.kind = "page"
                          THEN [ss1 EXCEPT !.page = e.p]
                          ELSE ss1
               IN  IF has_rows(df) /\ e.kind = "nav" /\ e.w \in types
                   THEN Reran(select_workout(ss2, e.w, e.kind))
                   ELSE IF ~has_rows(df)
                   THEN Rendered([ss2 EXCEPT !.page = "summary"],
                                 main(df, NoSelection, "summary", FALSE)
                                    @@ [types |-> types])
                   ELSE IF ss2.page = "workout_selection" /\ e.kind = "analyze"
                           /\ e.w \in types
                   THEN Reran(select_workout(ss2, e.w, e.kind))
                   ELSE Rendered(ss2, main(df, NoSelection, ss2.page, FALSE)
                                          @@ [types |-> types])

\* the widgets of the last render the user can act on
Clickable ==
    {[kind |-> "refresh", w |-> NoSelection, p |-> "summary"]}
    \cup (IF view.selected # NoSelection
          THEN {[kind |-> "back_sidebar", w |-> NoSelection, p |-> "summary"]}
          ELSE {})
    \cup (IF view.page = "individual"
          THEN {[kind |-> "back_page", w |-> NoSelection, p |-> "summary"]}
               \cup {[kind |-> "switch", w |-> w, p |-> "summary"] :
                        w \in view.types \ {view.selected}}
          ELSE {})
    \cup (IF view.page \in page_options
          THEN {[kind |-> "nav", w |-> w, p |-> "summary"] : w \in view.types}
               \cup {[kind |-> "page", w |-> NoSelection, p |-> p] :
                        p \in page_options \ {session.page}}
          ELSE {})
    \cup (IF view.page = "workout_selection"
          THEN {[kind |-> "analyze", w |-> w, p |-> "summary"] : w \in view.types}
          ELSE {})

SessionInit ==
    /\ source \in SourceStates
    /\ cache = NoEntry
    /\ now = 0
    /\ ttl \in 1..MaxTTL
    /\ result = None
    /\ call = NoCall
    /\ hist = NoFetch
    /\ PipelineIdle
    /\ AggIdle
    /\ workouts = [computed |-> FALSE]
    /\ analysis = [computed |-> FALSE]
    /\ view = [ran |-> FALSE]
    /\ probe = [calls |-> 0]
    /\ env = [set |-> FALSE]
    /\ drive = {}
    /\ session = [started |-> FALSE, has_key |-> FALSE, selected |-> NoSelection,
                  page |-> "summary", pending |-> Rerun,
                  last |-> [kind |-> "none", w |-> NoSelection, via |-> "none",
                           rendered |-> FALSE],
                  after_nav |-> [called |-> FALSE, has_key |-> FALSE]]

\* the user acts on a widget of the page on the screen
UserClick ==
    /\ view.ran
    /\ session.pending = NoEvent
    /\ \E e \in Clickable : session' = [session EXCEPT !.pending = e]
    /\ UNCHANGED <<loaderVars, pureVars, aggVars, workouts, analysis, view,
                   probe, env, drive>>

\* one run of the script: load_workout_data behind the cache, then main's
\* sidebar and routing with the pending widget event
Run ==
    /\ session.pending # NoEvent
    /\ LET hit == cache_hit(cache, now)
           df == IF hit THEN cache.value ELSE fetch_workout_data(source)
           stored == IF hit THEN cache ELSE cache_store(cache, df, now, ttl)
           out == script(session, df, session.pending)
       IN  /\ result' = df
           /\ cache' = IF out.clear THEN cache_clear(stored) ELSE stored
           /\ session' = [out.session EXCEPT
                            !.started = TRUE,
                            !.pending = IF out.rerun THEN Rerun ELSE NoEvent]
           /\ view' = IF out.rerun THEN view ELSE out.view
    /\ UNCHANGED <<source, now, ttl, call, hist, pureVars, aggVars,
                   workouts, analysis, probe, env, drive>>

SessionNext == Run \/ UserClick \/ Tick \/ ChangeSource

SessionSpec == SessionInit /\ [][SessionNext]_vars


-----------------------------------------------------------------------------
(* show_summary_page: the progress analysis of one movement *)

snan == <<"n","a","n">>

\* str(x) of a cell; str(nan) is 'nan'
py_str(c) == IF IsNa(c) THEN snan ELSE StrOf(c)

\* the positions of the columns whose lower-cased name contains part
cols_containing(df, part) ==
    {j \in 1..Len(df.cols) : Contains(Lower(df.cols[j]), part)}

\* the positions in S, ascending
RECURSIVE ascending(_)
ascending(S) ==
    IF S = {} THEN <<>> ELSE <<SetMin(S)>> \o ascending(S \ {SetMin(S)})

\* "for col in df.columns: if 'date' in col_lower: date_col = col
\*  elif 'workout' in col_lower: workout_col = col": the last such column, 0 for None
date_col(df) ==
    IF cols_containing(df, sdate) = {} THEN 0 ELSE SetMax(cols_containing(df, sdate))
workout_col(df) ==
    LET P == cols_containing(df, sworkout) \ cols_containing(df, sdate)
    IN  IF P = {} THEN 0 ELSE SetMax(P)

\* "df_clean = df.dropna(subset=[date_col, workout_col]); df_clean.replace('#REF!', '')"
df_clean(df) ==
    LET kept == SelectSeq(df.rows,
                    LAMBDA r : NotNa(r.cells[date_col(df)]) /\ NotNa(r.cells[workout_col(df)]))
    IN  [df EXCEPT !.rows =
            IF kept = <<>> THEN <<>>
            ELSE [i \in 1..Len(kept) |->
                    [kept[i] EXCEPT !.cells =
                        [j \in 1..Len(df.cols) |->
                            IF kept[i].cells[j] = Str(sRefError) THEN Str(<<>>)
                            ELSE kept[i].cells[j]]]]]

\* "pd.to_datetime(df_clean[date_col])" without errors='coerce' raises on a
\* text that is no date
to_datetime_raises(df) ==
    \E i \in 1..Len(df_clean(df).rows) :
        LET c == df_clean(df).rows[i].cells[date_col(df)]
        IN  c.k = "str" /\ ~IsIsoDate(Strip(c.s))

\* "movement_cols = [col for col in df.columns if 'movement' in str(col).lower()]"
movement_cols(df) == ascending(cols_containing(df, smovement))

\* "weight_cols = [col for col in df.columns if 'weight' in str(col).lower()]"
weight_cols(df) == ascending(cols_containing(df, sweight))

\* "if str(movement) != 'nan' and movement and str(movement).strip()"
counts_as_movement(c) == NotNa(c) /\ py_str(c) # snan /\ truthy(c) /\ Strip(py_str(c)) # <<>>

\* movement_frequency[name]
movement_frequency(df, name) ==
    Cardinality({ij \in (1..Len(df_clean(df).rows)) \X (1..Len(movement_cols(df))) :
        LET c == df_clean(df).rows[ij[1]].cells[movement_cols(df)[ij[2]]]
        IN  counts_as_movement(c) /\ Strip(py_str(c)) = name})

\* progress_candidates: the movements of at least three occurrences
progress_candidates(df) ==
    {name \in {Strip(py_str(df_clean(df).rows[ij[1]].cells[movement_cols(df)[ij[2]]])) :
                 ij \in (1..Len(df_clean(df).rows)) \X (1..Len(movement_cols(df)))} :
        movement_frequency(df, name) >= 3}

\* "pd.notna(row[weight_col]) and row[weight_col] != ''" and float() succeeds
weight_recorded(c) ==
    /\ NotNa(c)
    /\ c # Str(<<>>)
    /\ (c.k = "num" \/ (c.k = "str" /\ FloatParses(c.s)))

\* "weight_col = weight_cols[i] if i < len(weight_cols) else None": the i-th
\* of the columns whose name contains 'weight', 0 for None
paired_weight_col(df, i) ==
    IF i <= Len(weight_cols(df)) THEN weight_cols(df)[i] ELSE 0

\* the entry the i-th movement column of row r adds to progress_data: none or one
progress_entry(df, r, i, selected_movement) ==
    LET movement_col == movement_cols(df)[i]
        weight_col == paired_weight_col(df, i)
    IN  IF Strip(py_str(r.cells[movement_col])) = selected_movement
           /\ weight_col # 0
           /\ weight_recorded(r.cells[weight_col])
        THEN << [idx |-> r.idx,
                 date |-> ToDatetime(r.cells[date_col(df)]),
                 weight |-> IF r.cells[weight_col].k = "num" THEN r.cells[weight_col].n
                            ELSE FloatOf(r.cells[weight_col].s),
                 workout |-> r.cells[workout_col(df)],
                 movement_col |-> movement_col] >>
        ELSE <<>>

\* the loops "for idx, row in df_clean.iterrows(): for i, movement_col in enumerate(movement_cols)"
RECURSIVE row_progress(_, _, _, _)
row_progress(df, r, i, selected_movement) ==
    IF i > Len(movement_cols(df)) THEN <<>>
    ELSE progress_entry(df, r, i, selected_movement)
         \o row_progress(df, r, i + 1, selected_movement)

RECURSIVE progress_data(_, _, _)
progress_data(df, k, selected_movement) ==
    IF k > Len(df_clean(df).rows) THEN <<>>
    ELSE row_progress(df, df_clean(df).rows[k], 1, selected_movement)
         \o progress_data(df, k + 1, selected_movement)

\* progress_df.sort_values('date')
RECURSIVE sort_by_date(_)
sort_by_date(q) ==
    IF q = <<>> THEN <<>>
    ELSE LET rest == sort_by_date(SubSeq(q, 1, Len(q) - 1))
             x == q[Len(q)]
             after == {i \in 1..Len(rest) : date_less(x.date, rest[i].date)}
             k == IF after = {} THEN Len(rest) + 1 ELSE SetMin(after)
         IN  SubSeq(rest, 1, k - 1) \o <<x>> \o SubSeq(rest, k, Len(rest))

\* show_summary_page() on the loaded table df with the movement the selectbox
\* holds: what the page shows of the progress analysis
show_summary_page(df, selected_movement) ==
    IF df = None \/ IsEmpty(df) \/ date_col(df) = 0 \/ workout_col(df) = 0
    THEN [ran |-> TRUE, page |-> "summary", outcome |-> "rendered",
          selected_movement |-> <<>>, progress |-> <<>>]
    ELSE IF to_datetime_raises(df)
    THEN [ran |-> TRUE, page |-> "summary", outcome |-> "inline_error",
          selected_movement |-> <<>>, progress |-> <<>>]
    ELSE [ran |-> TRUE, page |-> "summary", outcome |-> "rendered",
          selected_movement |-> selected_movement,
          progress |-> IF selected_movement = <<>> THEN <<>>
                       ELSE sort_by_date(progress_data(df, 1, selected_movement))]

\* Sheets of two sessions in several column orders, without a weight column
\* for slot 1, and with a column Bodyweight.
sBodyweight == <<"B","o","d","y">> \o sweight

ProgressLayouts ==
    { <<sDate, sWorkout, sMovement1, sWeight1, sMovement2, sWeight2>>,
      <<sDate, sWorkout, sMovement1, sMovement2, sWeight1, sWeight2>>,
      <<sDate, sWorkout, sWeight2, sMovement1, sWeight1, sMovement2>>,
      <<sDate, sWorkout, sMovement1, sMovement2, sWeight2>>,
      <<sDate, sWorkout, sBodyweight, sMovement1, sWeight1, sMovement2, sWeight2>>,
      <<sDate, sWorkout, sMovement1, sWeight1, sMovement2, sWeight2, sBodyweight>> }

\* the row of a layout that holds the given cells under the given names
LayoutRow(layout, d, m1, w1, m2, w2) ==
    [j \in 1..Len(layout) |->
        CASE layout[j] = sDate      -> d
          [] layout[j] = sWorkout   -> Str(sPush)
          [] layout[j] = sMovement1 -> m1
          [] layout[j] = sWeight1   -> w1
          [] layout[j] = sMovement2 -> m2
          [] layout[j] = sWeight2   -> w2
          [] OTHER                  -> Num(80)]

ProgressTables ==
    { MkTable(layout,
              << LayoutRow(layout, Str(sDay1), Str(sBench), a1, Str(sBench), Num(60)),
                 LayoutRow(layout, Str(sDay2), Str(sBenchPadded), b1, m2, b2) >>) :
        layout \in ProgressLayouts,
        a1 \in {Num(100), Num(110)},
        b1 \in {Num(120), Str(<<>>), Str(sAbc)},
        m2 \in {Str(sBench), Str(sRow)},
        b2 \in {Num(70), Null} }

SummaryInit ==
    /\ result \in {clean_workout_data(t) : t \in ProgressTables}
    /\ source = [status |-> "ok", data |-> EmptyTable]
    /\ cache = NoEntry
    /\ now = 0
    /\ ttl = 1
    /\ call = NoCall
    /\ hist = NoFetch
    /\ PipelineIdle
    /\ AggIdle
    /\ ViewIdle

\* the summary page is rendered with one of the movements the selectbox offers
ShowSummaryPage ==
    /\ ~view.ran
    /\ \E selected_movement \in
            (IF has_rows(result) /\ date_col(result) # 0 /\ workout_col(result) # 0
                /\ ~to_datetime_raises(result) /\ progress_candidates(result) # {}
             THEN progress_candidates(result) ELSE {<<>>}) :
          view' = show_summary_page(result, selected_movement)
    /\ UNCHANGED <<loaderVars, pureVars, aggVars, workouts, analysis, auxVars>>

SummaryNext == ShowSummaryPage

SummarySpec == SummaryInit /\ [][SummaryNext]_vars


-----------------------------------------------------------------------------
(* test_connection and load_workout_data: which sheet each of them opens *)

\* an environment variable that is not set
Unset == "<unset>"

\* os.getenv(key, default)
getenv(e, key, default) == IF e[key] = Unset THEN default ELSE e[key]

\* the spreadsheet and the worksheet test_connection reads: the sheet named by
\* GOOGLE_SHEET_NAME (default 'Your Workout Log'), and its first worksheet
test_connection(e, d) ==
    LET sheet_name == getenv(e, "GOOGLE_SHEET_NAME", "Your Workout Log")
    IN  IF ~d.authorized
        THEN [done |-> TRUE, success |-> FALSE, sheet |-> "", worksheet |-> ""]
        ELSE IF sheet_name \notin DOMAIN d.sheets           \* SpreadsheetNotFound
        THEN [done |-> TRUE, success |-> FALSE, sheet |-> sheet_name, worksheet |-> ""]
        ELSE LET sheet1 == Head(d.sheets[sheet_name])
             IN  [done |-> TRUE,
                  success |-> sheet1.header,    \* "if not header_row: return False, ..."
                  sheet |-> sheet_name, worksheet |-> sheet1.title]

\* the spreadsheet and the worksheet the body of load_workout_data reads: the
\* sheet named by GOOGLE_SHEET_NAME (default 'Fitness Tracker') and its
\* worksheet named by GOOGLE_SHEET_WORKSHEET (default 'master_tracker')
load_target(e, d) ==
    LET sheet_name == getenv(e, "GOOGLE_SHEET_NAME", "Fitness Tracker")
        worksheet_name == getenv(e, "GOOGLE_SHEET_WORKSHEET", "master_tracker")
    IN  IF ~d.authorized
        THEN [done |-> TRUE, failure |-> "auth_fail", sheet |-> "", worksheet |-> ""]
        ELSE IF sheet_name \notin DOMAIN d.sheets
        THEN [done |-> TRUE, failure |-> "no_sheet", sheet |-> sheet_name, worksheet |-> ""]
        ELSE IF \A i \in 1..Len(d.sheets[sheet_name]) :
                    d.sheets[sheet_name][i].title # worksheet_name
        THEN [done |-> TRUE, failure |-> "no_worksheet", sheet |-> sheet_name,
              worksheet |-> worksheet_name]
        ELSE [done |-> TRUE, failure |-> "none", sheet |-> sheet_name,
              worksheet |-> worksheet_name]

\* the environments: each variable unset, or set to one of the names
Environments ==
    [GOOGLE_SHEET_NAME : {Unset, "Fitness Tracker", "Your Workout Log"},
     GOOGLE_SHEET_WORKSHEET : {Unset, "master_tracker", "Sheet1"}]

\* the worksheets of one spreadsheet, in order; header: row 1 has values
Worksheets ==
    { <<[title |-> a, header |-> h]>> : a \in {"master_tracker", "Sheet1"}, h \in BOOLEAN }
    \cup { <<[title |-> p[1], header |-> h], [title |-> p[2], header |-> TRUE]>> :
             p \in {<<"master_tracker", "Sheet1">>, <<"Sheet1", "master_tracker">>},
             h \in BOOLEAN }

\* what the service account sees
Drives ==
    { [authorized |-> a, sheets |-> f] :
        a \in BOOLEAN,
        f \in UNION { [N -> Worksheets] : N \in SUBSET {"Fitness Tracker", "Your Workout Log"} } }

ConnectionInit ==
    /\ env \in Environments
    /\ drive \in Drives
    /\ probe = [calls |-> 0, test |-> [done |-> FALSE], load |-> [done |-> FALSE]]
    /\ session = [started |-> FALSE]
    /\ workouts = [computed |-> FALSE]
    /\ analysis = [computed |-> FALSE]
    /\ view = [ran |-> FALSE]
    /\ LoaderIdle
    /\ PipelineIdle
    /\ AggIdle

\* the "Test Google Sheets Connection" button
TestConnection ==
    /\ ~probe.test.done
    /\ probe' = [probe EXCEPT !.calls = @ + 1, !.test = test_connection(env, drive)]
    /\ UNCHANGED <<loaderVars, pureVars, aggVars, workouts, analysis, view,
                   session, env, drive>>

\* a call of load_workout_data that runs the body
LoadUncached ==
    /\ ~probe.load.done
    /\ probe' = [probe EXCEPT !.calls = @ + 1, !.load = load_target(env, drive)]
    /\ UNCHANGED <<loaderVars, pureVars, aggVars, workouts, analysis, view,
                   session, env, drive>>

ConnectionNext == TestConnection \/ LoadUncached

ConnectionSpec == ConnectionInit /\ [][ConnectionNext]_vars


-----------------------------------------------------------------------------
(* The cache: claims C1-C3 (specification Spec) *)

\* the last call fell inside the cache window of the fetch before it
WithinWindow ==
    /\ call.made
    /\ call.prior.fetched
    /\ ~call.prior.cleared
    /\ call.at - call.prior.at < ttl

\* the last call came after the entry of the fetch before it had expired
AfterExpiry ==
    /\ call.made
    /\ call.prior.fetched
    /\ call.at - call.prior.at >= ttl

\* the table load_workout_data owes for a reachable source
TableOf(src) ==
    IF src.data.rows = <<>> THEN EmptyTable ELSE clean_workout_data(src.data)

\* C1: a call of load_workout_data made within the cache window (the TTL has
\* not elapsed since the last fetch and the cache was not cleared since)
\* returns the table that fetch returned and does not contact the source.
C1_ServedFromCache ==
    WithinWindow => (~call.contacted /\ result = call.prior.value)

\* C1 happens: a call inside the window is answered from the cache although
\* the source would by then give something else.
C1_Witness ==
    /\ WithinWindow
    /\ ~call.contacted
    /\ IsTable(result)
    /\ fetch_workout_data(call.src) # result

\* C2: the first call after the entry expired contacts the source and returns
\* the table of the source as it is then; what the cache holds afterwards is
\* that value and nothing of the value it replaced.
C2_RefetchAfterExpiry ==
    /\ AfterExpiry =>
          /\ call.contacted
          /\ call.src.status = "ok" => result = TableOf(call.src)
    /\ (call.made /\ cache.live) => cache.value = result

\* C2 happens: after expiry a table is fetched that lacks a row of the table
\* cached before.
C2_Witness ==
    /\ AfterExpiry
    /\ call.contacted
    /\ cache.live
    /\ IsTable(result) /\ IsTable(call.prior.value)
    /\ result.rows # <<>>
    /\ \E i \in 1..Len(call.prior.value.rows) :
          \A j \in 1..Len(result.rows) :
              result.rows[j].cells # call.prior.value.rows[i].cells

\* C3: a fetch of a reachable source without data rows returns the empty
\* frame, which is not None; a fetch that fails at the credentials, the sheet,
\* the worksheet or the read returns None, which is no frame.
C3_EmptyIsNotFailure ==
    (call.made /\ call.contacted) =>
        /\ (call.src.status = "ok" /\ call.src.data.rows = <<>>) =>
              (result = EmptyTable /\ result # None)
        /\ call.src.status \in Failures => (result = None /\ ~IsTable(result))

\* C3 happens: a fetch of an empty sheet right after a fetch that failed.
C3_Witness ==
    /\ call.made /\ call.contacted
    /\ call.src.status = "ok" /\ call.src.data.rows = <<>>
    /\ result = EmptyTable
    /\ call.prior.fetched /\ call.prior.value = None

-----------------------------------------------------------------------------
(* The normalizer and the pivot: claims C4-C9 (specification PipelineSpec) *)

\* a cell that holds nothing: NaN, or a str that is empty once stripped
CellBlank(c) == IsNa(c) \/ (c.k = "str" /\ Strip(c.s) = <<>>)

\* a cell that holds a number, as a number or as its text
IsNumber(c) == c.k = "num" \/ (c.k = "str" /\ FloatParses(c.s))
NumVal(c) == IF c.k = "num" THEN c.n ELSE FloatOf(c.s)
Positive(c) == IsNumber(c) /\ NumVal(c) > 0
MissingOrZero(c) == CellBlank(c) \/ (IsNumber(c) /\ NumVal(c) = 0)
Unparseable(c) == ~CellBlank(c) /\ ~IsNumber(c)
IsRefError(c) == c.k = "str" /\ c.s = sRefError

\* the slots of the sheet's layout
SlotNums == {<<"1">>, <<"2">>}

\* the cell of row r in the first column named like the first of the targets
\* that names a column at all; 0 when none of them does
FirstNamed(t, r, targets) ==
    LET found == {i \in 1..Len(targets) : NamedLike(t, targets[i]) # {}}
    IN  IF found = {} THEN Num(0)
        ELSE r.cells[SetMin(NamedLike(t, targets[SetMin(found)]))]

\* the name, weight, rep and set cell of slot n in row r of table t
NameCell(t, r, n) ==
    IF NamedLike(t, sMovementU \o n) = {} THEN Null
    ELSE r.cells[SetMin(NamedLike(t, sMovementU \o n))]
WeightCell(t, r, n) == FirstNamed(t, r, <<sWeightU \o n, sWeightsU \o n, sWtU \o n>>)
RepCell(t, r, n)    == FirstNamed(t, r, <<sRepU \o n, sRepsU \o n, sRepetitionsU \o n>>)
SetCell(t, r, n)    == FirstNamed(t, r, <<sSetU \o n, sSetsU \o n>>)

RowsOf(t) == {t.rows[i] : i \in 1..Len(t.rows)}
Records == {movements[i] : i \in 1..Len(movements)}

\* the records extraction emitted for slot n of row r
RecordsOf(r, n) ==
    SelectSeq(movements, LAMBDA m : m.session_id = r.idx /\ m.movement_number = n)

Extracted == pc = "extracted"

\* C4: a row of the raw table without a workout label (a null or blank
\* Workout cell) is not in the cleaned table.
C4_NoRowWithoutWorkout ==
    (pc \in {"cleaned", "extracted"} /\ cleaned # Raised /\ HasCol(raw, sWorkout)) =>
        \A r \in RowsOf(raw) :
            CellBlank(RowGet(raw, r, sWorkout, Null)) =>
                \A c \in RowsOf(cleaned) : c.idx # r.idx

\* C5: every record has a name that is non-empty once stripped and a positive
\* weight, reps or sets; a slot with a null or blank name emits no record and
\* a slot whose three numeric cells are all missing or zero emits no record.
C5_RecordsAreMeaningful ==
    Extracted =>
        /\ \A m \in Records :
              /\ Strip(m.movement) # <<>>
              /\ m.weight.n > 0 \/ m.reps.n > 0 \/ m.sets.n > 0
        /\ \A r \in RowsOf(cleaned) : \A n \in SlotNums :
              /\ CellBlank(NameCell(cleaned, r, n)) => RecordsOf(r, n) = <<>>
              /\ ( /\ MissingOrZero(WeightCell(cleaned, r, n))
                   /\ MissingOrZero(RepCell(cleaned, r, n))
                   /\ MissingOrZero(SetCell(cleaned, r, n)) ) => RecordsOf(r, n) = <<>>

\* C5 happens: a row has a whitespace-only name over positive numbers in one
\* slot, and its other slot emitted a record.
C5_Witness ==
    /\ Extracted
    /\ \E r \in RowsOf(cleaned) :
          /\ NameCell(cleaned, r, <<"1">>) = Str(sBlank)
          /\ Positive(WeightCell(cleaned, r, <<"1">>))
          /\ RecordsOf(r, <<"1">>) = <<>>
          /\ Len(RecordsOf(r, <<"2">>)) = 1

\* the record the claims C6 and C9 expect of slot n of row r
ExpectedValue(c) == IF IsNumber(c) THEN NumVal(c) ELSE 0

\* C6: a slot with a non-blank name and a positive number among its weight,
\* reps and sets emits exactly one record, which carries the row's index, Date
\* and Workout, the stripped name and the slot's own weight, reps and sets.
C6_OneRecordPerFilledSlot ==
    Extracted =>
        \A r \in RowsOf(cleaned) : \A n \in SlotNums :
            ( /\ ~CellBlank(NameCell(cleaned, r, n))
              /\ \/ Positive(WeightCell(cleaned, r, n))
                 \/ Positive(RepCell(cleaned, r, n))
                 \/ Positive(SetCell(cleaned, r, n)) ) =>
            /\ Len(RecordsOf(r, n)) = 1
            /\ LET m == RecordsOf(r, n)[1]
               IN  /\ m.date = RowGet(cleaned, r, sDate, Null)
                   /\ m.workout_type = RowGet(cleaned, r, sWorkout, Str(sUnknown))
                   /\ m.movement = Strip(StrOf(NameCell(cleaned, r, n)))
                   /\ m.weight.n = ExpectedValue(WeightCell(cleaned, r, n))
                   /\ m.reps.n = ExpectedValue(RepCell(cleaned, r, n))
                   /\ m.sets.n = ExpectedValue(SetCell(cleaned, r, n))

\* the table with the error token in its weight, rep and set cells made null
RefErrorAsNull(t) ==
    [t EXCEPT !.rows =
        IF t.rows = <<>> THEN <<>>
        ELSE [i \in 1..Len(t.rows) |->
                [t.rows[i] EXCEPT !.cells =
                    [j \in 1..Len(t.cols) |->
                        IF /\ IsRefError(t.rows[i].cells[j])
                           /\ ~Contains(Lower(t.cols[j]), sMovementU)
                        THEN Null ELSE t.rows[i].cells[j]]]]]

\* C7: the error token in a weight, rep or set cell counts as null: the
\* records are those of the table with the token made null, and no record
\* carries the token.
C7_RefErrorIsNull ==
    Extracted =>
        movements = extract_movements_from_workout(RefErrorAsNull(cleaned))

\* C8: a slot whose name cell holds the error token emits no record, and no
\* record has the token as its movement name.
C8_NoRecordNamedRefError ==
    Extracted =>
        /\ \A m \in Records : m.movement # sRefError
        /\ \A r \in RowsOf(cleaned) : \A n \in SlotNums :
              IsRefError(NameCell(cleaned, r, n)) => RecordsOf(r, n) = <<>>

\* C9: an unparseable weight counts as zero for the weight only: the slot, if
\* its reps and sets are positive numbers, still emits a record with those
\* reps and sets.
C9_ParseFailureIsPerField ==
    Extracted =>
        \A r \in RowsOf(cleaned) : \A n \in SlotNums :
            ( /\ ~CellBlank(NameCell(cleaned, r, n))
              /\ Unparseable(WeightCell(cleaned, r, n))
              /\ Positive(RepCell(cleaned, r, n))
              /\ Positive(SetCell(cleaned, r, n)) ) =>
            \E m \in Records :
                /\ m.session_id = r.idx /\ m.movement_number = n
                /\ m.reps.n = NumVal(RepCell(cleaned, r, n))
                /\ m.sets.n = NumVal(SetCell(cleaned, r, n))

-----------------------------------------------------------------------------
(* The volume aggregates: claim C10 (specification MetricsSpec) *)

HasNull(m) == IsNa(m.weight) \/ IsNa(m.reps) \/ IsNa(m.sets)

\* what a record counts for in a volume
VolumeOf(m) == IF HasNull(m) THEN 0 ELSE m.weight.n * m.reps.n * m.sets.n

RECURSIVE TotalVolume(_)
TotalVolume(ms) ==
    IF ms = <<>> THEN 0 ELSE VolumeOf(Head(ms)) + TotalVolume(Tail(ms))

BestVolume(ms, name) ==
    SetMax({VolumeOf(ms[i]) : i \in {j \in 1..Len(ms) : ms[j].movement = name}})

\* C10: a record with a null weight, reps or sets counts as zero in
\* total_volume and in the volume of the personal records; both are computed
\* for every table of records.
C10_NullCountsAsZeroVolume ==
    /\ (metrics.computed /\ recs # <<>>) =>
          metrics.total_volume = TotalVolume(recs)
    /\ pr_data.computed =>
          \A i \in 1..Len(recs) :
              LET name == recs[i].movement
                  found == {k \in 1..Len(pr_data.entries) :
                              /\ pr_data.entries[k].movement = name
                              /\ pr_data.entries[k].type = "Max Volume"}
              IN  IF BestVolume(recs, name) > 0
                  THEN /\ Cardinality(found) = 1
                       /\ \A k \in found :
                             pr_data.entries[k].value = Num(BestVolume(recs, name))
                  ELSE found = {}

\* C10 happens: both aggregates are computed over a record with a null field
\* and a record without.
C10_Witness ==
    /\ metrics.computed /\ pr_data.computed
    /\ \E i, j \in 1..Len(recs) : HasNull(recs[i]) /\ VolumeOf(recs[j]) > 0
    /\ metrics.total_volume > 0

-----------------------------------------------------------------------------
(* get_unique_workouts: claim C11 (specification WorkoutsSpec) *)

\* C11: get_unique_workouts returns, for every table, a list in strictly
\* ascending order (sorted, each label once) without a null, empty or
\* whitespace-only entry, and the empty list when the table is empty or has
\* no Workout column.
C11_UniqueWorkoutsSorted ==
    workouts.computed =>
        /\ ~workouts.raised
        /\ \A i, j \in 1..Len(workouts.value) :
              i < j => label_less(workouts.value[i], workouts.value[j])
        /\ \A i \in 1..Len(workouts.value) : ~CellBlank(workouts.value[i])
        /\ (IsEmpty(raw) \/ ~HasCol(raw, sWorkout)) => workouts.value = <<>>

-----------------------------------------------------------------------------
(* The round trip of the sample table: claim C12 (specification PipelineSpec) *)

\* the records of the sample's first row with weight 185, reps 8 and sets 3
SampleHits ==
    {i \in 1..Len(movements) :
        /\ movements[i].weight = Num(185)
        /\ movements[i].reps = Num(8)
        /\ movements[i].sets = Num(3)}

\* C12: the sample table, cleaned and pivoted, yields exactly one record with
\* weight 185, reps 8 and sets 3: the one of row 1's 'Bench Press' on
\* 'Push Day'; its volume, weight x reps x sets, is 4440.
C12_SampleRoundTrip ==
    (Extracted /\ raw = sample_data) =>
        /\ Cardinality(SampleHits) = 1
        /\ \A i \in SampleHits :
              /\ movements[i].session_id = 0
              /\ movements[i].date = Ts(20240101)
              /\ movements[i].workout_type = Str(sPushDay)
              /\ movements[i].movement = sBenchPress
              /\ volume_term(movements[i]) = Num(4440)
              /\ pr_volume(movements[i]) = Num(4440)

\* C12 happens: the sample went through the cleaner and the extractor, which
\* emitted the six records of its three rows, the first of them row 1's.
C12_Witness ==
    /\ Extracted
    /\ raw = sample_data
    /\ cleaned.rows[1].cells[1] = Ts(20240101)
    /\ Len(movements) = 6
    /\ SampleHits = {1}

-----------------------------------------------------------------------------
(* Means and maxima: claim C13 (specification PipelineSpec) *)

\* the row of the cleaned table a record came from, and the cells of its slot
RowOfRecord(m) == CHOOSE r \in RowsOf(cleaned) : r.idx = m.session_id
SourceWeight(m) == WeightCell(cleaned, RowOfRecord(m), m.movement_number)
SourceReps(m)   == RepCell(cleaned, RowOfRecord(m), m.movement_number)
SourceSets(m)   == SetCell(cleaned, RowOfRecord(m), m.movement_number)

\* C13: the mean and max weight, the mean and max reps and the mean sets of a
\* movement are taken over the records whose cell for that field holds a
\* number (a missing or unparseable cell does not enter them), while the sum
\* of sets counts such a cell as zero.
C13_MeanMaxOverPresent ==
    (analysis.computed /\ ~analysis.empty) =>
        \A nm \in DOMAIN analysis.stats :
            LET md == of_movement(movements, nm)
                w == column(SelectSeq(md, LAMBDA m : IsNumber(SourceWeight(m))), "weight")
                r == column(SelectSeq(md, LAMBDA m : IsNumber(SourceReps(m))), "reps")
                s == column(SelectSeq(md, LAMBDA m : IsNumber(SourceSets(m))), "sets")
            IN  /\ analysis.stats[nm].AvgWeight = rounded_mean(series_mean(w))
                /\ analysis.stats[nm].MaxWeight = series_max(w)
                /\ analysis.stats[nm].AvgReps = rounded_mean(series_mean(r))
                /\ analysis.stats[nm].MaxReps = series_max(r)
                /\ analysis.stats[nm].AvgSets = rounded_mean(series_mean(s))
                /\ analysis.stats[nm].TotalSets = series_sum(column(md, "sets"))

-----------------------------------------------------------------------------
(* The cleaner: claims C14 and C15 (specification PipelineSpec) *)

Cleaned == pc \in {"cleaned", "extracted"}

DateVariants == {sdate, sDate}
WorkoutVariants == {sworkout, sWorkout}
StartTimeVariants == {sstarttime, sStartTime}
NumericVariants == {sreps, sReps, ssets, sSets, sweight, sWeight}

\* a cell pd.to_datetime cannot read as a date
UnparseableDate(c) == c.k = "str" /\ ~IsIsoDate(Strip(c.s))

\* row r of the raw table has a workout label
HasLabel(r) ==
    \E j \in 1..Len(raw.cols) : raw.cols[j] \in WorkoutVariants /\ ~CellBlank(r.cells[j])

\* C14: clean_workout_data does not raise; a row of the raw table that has a
\* workout label is in the cleaned table, and there its unparseable date
\* cells and its unparseable cells of the declared-numeric columns are null.
C14_MalformedCellsBecomeNull ==
    Cleaned =>
        /\ cleaned # Raised
        /\ cleaned # Raised =>
             \A r \in RowsOf(raw) : HasLabel(r) =>
                \E c \in RowsOf(cleaned) :
                    /\ c.idx = r.idx
                    /\ \A j \in 1..Len(raw.cols) :
                          /\ (raw.cols[j] \in DateVariants /\ UnparseableDate(r.cells[j]))
                                => IsNa(c.cells[j])
                          /\ (raw.cols[j] \in NumericVariants /\ Unparseable(r.cells[j]))
                                => IsNa(c.cells[j])

\* the known variants of each canonical column name
CanonicalNames ==
    {<<DateVariants, sDate>>, <<WorkoutVariants, sWorkout>>,
     <<StartTimeVariants, sStartTime>>}

\* C15: in the cleaned table every column the source named by a variant of
\* the date, workout-label or start-time column carries the canonical name
\* (Date, Workout, Start_Time), and no canonical name is on two columns.
C15_CanonicalColumnNames ==
    (Cleaned /\ cleaned # Raised) =>
        \A vc \in CanonicalNames :
            /\ \A j \in 1..Len(raw.cols) :
                  raw.cols[j] \in vc[1] => cleaned.cols[j] = vc[2]
            /\ Cardinality(ColPos(cleaned, vc[2])) <= 1

-----------------------------------------------------------------------------
(* Column matching: claim C16 (specification PipelineSpec) *)

\* C16: the weight of a record of slot n is read from the first column that
\* exists among weight_n, weights_n, wt_n, its reps from the first among
\* rep_n, reps_n, repetitions_n, its sets from the first among set_n, sets_n;
\* names match whole and without regard to case, and a field without a
\* column is 0.
C16_FallbackColumns ==
    Extracted =>
        \A m \in Records :
            LET r == CHOOSE x \in RowsOf(cleaned) : x.idx = m.session_id
                n == m.movement_number
            IN  /\ m.weight.n = ExpectedValue(WeightCell(cleaned, r, n))
                /\ m.reps.n = ExpectedValue(RepCell(cleaned, r, n))
                /\ m.sets.n = ExpectedValue(SetCell(cleaned, r, n))

\* C16 happens: the weight came from WT_1, the third choice in capitals,
\* past a column xweight_1 that only contains the first choice's name; the
\* reps came from REPS_1 and there is no set column for the slot.
C16_Witness ==
    /\ Extracted
    /\ cleaned.cols = <<sDate, sWorkout, sMovement1Cap, sXWeight1, sWT1, sREPS1, sSet2>>
    /\ Len(movements) = 1
    /\ movements[1].weight = Num(200)
    /\ movements[1].reps = Num(8)
    /\ movements[1].sets = Num(0)

-----------------------------------------------------------------------------
(* Movement names: claim C17 (specification PipelineSpec) *)

\* the movement-name cell a record came from
SourceName(m) == NameCell(cleaned, RowOfRecord(m), m.movement_number)

\* a name without its surrounding whitespace and in one letter case
Normalized(c) == Lower(Strip(StrOf(c)))

\* C17: two records whose movement-name cells differ only in letter case or
\* in leading or trailing whitespace carry the same movement name.
C17_NamesNormalized ==
    Extracted =>
        \A a, b \in Records :
            Normalized(SourceName(a)) = Normalized(SourceName(b))
                => a.movement = b.movement

-----------------------------------------------------------------------------
(* The loader: claims C18 and C19 (specification Spec) *)

\* the last call came after a clear of the cache, inside the window of the
\* fetch before it
AfterClear ==
    /\ call.made
    /\ call.prior.fetched
    /\ call.prior.cleared
    /\ call.at - call.prior.at < ttl

\* C18: the call of load_workout_data that follows an explicit clear contacts
\* the source although the cache window of the last fetch has not elapsed,
\* and returns the table of the source as it is then.
C18_ClearForcesRefetch ==
    AfterClear =>
        /\ call.contacted
        /\ call.src.status = "ok" => result = TableOf(call.src)
        /\ call.src.status \in Failures => result = None

\* C18 happens: inside the window, after a clear, a call returned a table
\* that differs from the one fetched before.
C18_Witness ==
    /\ AfterClear
    /\ IsTable(result) /\ IsTable(call.prior.value)
    /\ result # call.prior.value
    /\ result = TableOf(call.src)

\* how often the request q was made in the last call
TimesRequested(q) ==
    Cardinality({i \in 1..Len(call.requests) : call.requests[i] = q})

\* C19: a call that runs the body does not raise and makes each request of
\* the fetch at most once; when the source fails, the failing request is the
\* last one made, one error message is shown and the call returns None.
C19_OneAttemptNoRetry ==
    (call.made /\ call.contacted) =>
        /\ result # Raised
        /\ \A i \in 1..Len(call.requests) : TimesRequested(call.requests[i]) <= 1
        /\ call.src.status \in Failures =>
              /\ result = None
              /\ Len(call.errors) = 1
              /\ Len(call.requests) =
                    CASE call.src.status = "auth_fail"    -> 1
                      [] call.src.status = "no_sheet"     -> 2
                      [] call.src.status = "no_worksheet" -> 3
                      [] call.src.status = "read_fail"    -> 4

-----------------------------------------------------------------------------
(* The page boundary: claim C20 (specification PageSpec) *)

\* the pages main routes to
RoutedPages == {"summary", "workout_selection", "individual", "progress"}

\* C20: whichever page main routes to, the call of the page does not let an
\* exception out: the page is rendered, or the exception is shown inline.
C20_PageErrorsCaught ==
    (view.ran /\ view.page \in RoutedPages) => view.outcome # "escaped"

-----------------------------------------------------------------------------
(* Routing by the loaded table: claim C21 (specification PageSpec) *)

\* C21: in every run of main, whatever the selection and the chosen page: a
\* null table leads to the connection-error page, a table without rows to the
\* no-data placeholder, and a content page is called only for a table with rows.
C21_RoutingByTable ==
    view.ran =>
        /\ (result = None => view.page = "connection_error")
        /\ (result # None /\ IsEmpty(result) => view.page = "no_data")
        /\ (view.page \in RoutedPages => result # None /\ ~IsEmpty(result))

\* a workout is selected while the table has no rows, or is null
C21_Witness ==
    /\ view.ran
    /\ view.selected # NoSelection
    /\ result # None /\ IsEmpty(result)
    /\ view.page = "no_data"

-----------------------------------------------------------------------------
(* Validation and purity: claims C22, C23 (specification FunctionsSpec) *)

\* the call under test is a call of validate_data_structure
Validated == probe.calls >= 1 /\ probe.fn = "validate_data_structure"

\* the conditions the validation looks at, each violated one counted
ViolatedConditions(t) ==
    LET B(x) == IF x THEN 1 ELSE 0
    IN    B(~HasCol(t, sWorkout))
        + B(~HasCol(t, sDate))
        + B(\A j \in 1..Len(t.cols) : ~Contains(Lower(t.cols[j]), sMovementU))
        + B(\E j \in ColPos(t, sWorkout) : \E i \in 1..Len(t.rows) : IsNa(t.rows[i].cells[j]))
        + B(\E j \in ColPos(t, sDate) : \E i \in 1..Len(t.rows) : IsNa(t.rows[i].cells[j]))
        + B(extract_movements_from_workout(t) = <<>>)

\* C22: validate_data_structure never raises; for an empty table it returns
\* (false, one issue); otherwise it returns one issue for each violated
\* condition, and is_valid is true exactly when there is no issue.
C22_ValidationMatchesIssues ==
    Validated =>
        LET v == probe.first
            t == probe.arg
        IN  /\ ~v.raised
            /\ v.is_valid <=> (v.issues = <<>>)
            /\ IsEmpty(t) => (~v.is_valid /\ Len(v.issues) = 1)
            /\ ~IsEmpty(t) => Len(v.issues) = ViolatedConditions(t)

-----------------------------------------------------------------------------
(* Navigation between the pages: claims C24-C26 (specification SessionSpec) *)

\* the last render had a table with rows to show
ShowsContent == view.ran /\ view.page \notin {"connection_error", "no_data"}

\* C24: once a click on a workout's button (sidebar button, Analyze card or
\* quick switch) was handled, selected_workout is that workout until a Back
\* click or another selection is handled, and every render made since then
\* with a table that has rows shows that workout's individual page.
C24_SelectionPersists ==
    session.last.kind = "select" =>
        /\ session.has_key
        /\ session.selected = session.last.w
        /\ (session.last.rendered /\ ShowsContent) =>
              (view.page = "individual" /\ view.selected = session.last.w)

\* the workout was taken on the Analyze card and its page is on the screen
C24_Witness ==
    /\ session.last.kind = "select"
    /\ session.last.via = "analyze"
    /\ session.last.rendered
    /\ session.pending = NoEvent
    /\ view.page = "individual"
    /\ view.selected = session.last.w

\* C25: the run that handles a Back click removes selected_workout from the
\* session state; the next render has it back with the value None, shows the
\* main navigation and no individual page; and after every call of
\* get_workout_page_navigation the key exists.
C25_BackClearsSelection ==
    /\ (session.last.kind = "back" /\ ~session.last.rendered) => ~session.has_key
    /\ (session.last.kind = "back" /\ session.last.rendered) =>
          /\ session.has_key
          /\ session.selected = NoSelection
          /\ view.selected = NoSelection
          /\ view.page # "individual"
    /\ session.after_nav.called => session.after_nav.has_key

\* the page's own Back button was clicked and the main navigation is back
C25_Witness ==
    /\ session.last.kind = "back"
    /\ session.last.via = "back_page"
    /\ session.last.rendered
    /\ view.page \in page_options

\* C26: whenever the individual workout page is rendered, the selected workout
\* is one of the workout types of the table loaded in that render.
C26_SelectionIsAType ==
    (view.ran /\ view.page = "individual") => view.selected \in view.types

-----------------------------------------------------------------------------
(* A failure in the cache: claim C27 (specification Spec) *)

\* the fetch before the last call failed, and the source is reachable again
AfterFailure ==
    /\ call.made
    /\ call.prior.fetched
    /\ call.prior.value = None
    /\ call.src.status = "ok"

\* C27: a call of load_workout_data that follows a failed fetch, made when the
\* source is reachable again, returns the table of the source and not the
\* None of the failure, also inside the cache window and without a clear.
C27_FailureNotCached ==
    AfterFailure => (result # None /\ result = TableOf(call.src))

-----------------------------------------------------------------------------
(* The order of the records: claim C28 (specification PipelineSpec) *)

\* the slot index of a record, as a number
SlotIndex(m) == DigitsVal(m.movement_number)

\* C28: the records come out ordered by date, then by session, then by slot
\* index as a number: of two records of one session the one of the lower
\* slot comes first.
C28_SlotsInNumericOrder ==
    Extracted =>
        \A i, j \in 1..Len(movements) :
            ( /\ i < j
              /\ movements[i].session_id = movements[j].session_id
              /\ AllDigits(movements[i].movement_number)
              /\ AllDigits(movements[j].movement_number) )
            => SlotIndex(movements[i]) < SlotIndex(movements[j])

-----------------------------------------------------------------------------
(* The progress analysis: claim C29 (specification SummarySpec) *)

\* the row of the loaded table with the index label idx
RowAt(idx) == CHOOSE r \in RowsOf(result) : r.idx = idx

\* C29: every weight the progress analysis records for an occurrence of the
\* selected movement is the value of the weight column of the occurrence's
\* own slot.
C29_WeightOfOwnSlot ==
    (view.ran /\ view.page = "summary") =>
        \A k \in 1..Len(view.progress) :
            LET e == view.progress[k]
                n == movement_num(result.cols[e.movement_col])
                own == NamedLike(result, sWeightU \o n)
            IN  /\ own # {}
                /\ IsNumber(RowAt(e.idx).cells[SetMin(own)])
                /\ NumVal(RowAt(e.idx).cells[SetMin(own)]) = e.weight

-----------------------------------------------------------------------------
(* The connection test: claim C30 (specification ConnectionSpec) *)

\* C30: whenever test_connection reports success, an uncached
\* load_workout_data on the same source and environment reads the same
\* spreadsheet and the same worksheet, and does not fail for a missing sheet
\* or worksheet.
C30_TestOpensWhatLoadOpens ==
    (probe.test.done /\ probe.load.done /\ probe.test.success) =>
        /\ probe.load.failure \notin {"no_sheet", "no_worksheet"}
        /\ probe.load.sheet = probe.test.sheet
        /\ probe.load.worksheet = probe.test.worksheet

=============================================================================
